---------------------------- MODULE Spec2Model ----------------------------
(***************************************************************************)
(* Tenant lifecycle service of NeoMorfeo/tenantiq: the domain transition   *)
(* table, the looplab/fsm backed validator, the SQLite repository and the  *)
(* orchestration service (Create, GetByID, List, Transition) called by     *)
(* concurrent requests.                                                    *)
(***************************************************************************)
EXTENDS Integers, Sequences, FiniteSets, TLC

VARIABLES
    tenants,    \* the SQLite table "tenants": id -> row
    published,  \* events accepted by the publisher port, in order
    now,        \* the last reading of the wall clock (time.Now()), in ticks
    ncalls,     \* number of service calls started so far
    pc,         \* per caller: position inside the running service call
    args,       \* per caller: arguments of the running call
    tenant,     \* per caller: the local variable "tenant" of the call
    ret,        \* per caller: what the last call returned
    failed,     \* whether the port call of the last step met a failing driver or queue
    listed,     \* what the last List call was given and returned
    vpc,        \* validator client: position inside Validator.Apply
    vin,        \* validator client: (current, event) passed to Apply
    machine,    \* validator client: the short-lived loopfsm.FSM instance
    verr,       \* validator client: error returned by machine.Event
    vout,       \* validator client: what Apply returned
    vcalls,     \* validator client: number of Apply calls started
    porterr,    \* whether a port call of the single caller's running call failed
    cancelled,  \* whether the context of the single caller's call is cancelled
    conf,       \* a build of the program: its transition table, the descriptors
                \* made from it, the validator's construction and one lookup
    jobs,       \* the River queue: the arguments of the jobs inserted, in order
    traced,     \* port client: the last call made through a tracing decorator
    main        \* the process: run(), its server goroutine, the channel done

svars == <<tenants, published, now, ncalls, pc, args, tenant, ret, failed, listed>>
vvars == <<vpc, vin, machine, verr, vout, vcalls>>
fvars == <<porterr, cancelled, conf>>
avars == <<jobs, traced, main>>
vars  == <<tenants, published, now, ncalls, pc, args, tenant, ret, failed, listed,
           vpc, vin, machine, verr, vout, vcalls, porterr, cancelled, conf,
           jobs, traced, main>>

---------------------------------------------------------------------------
(* Bounds of the model *)

MaxCalls == 2        \* service calls started in one behaviour
NumIds == 2          \* size of the id space generateID draws from
MaxTime == 2         \* last clock reading, in ticks
TicksPerSecond == 2  \* clock readings within one second of timeFormat
MaxApplyCalls == 2   \* Validator.Apply calls in one behaviour
MaxSeqCalls == 5     \* service calls started by the single caller of SpecSeq
MaxLimit == 1        \* largest ListFilter.Limit
MaxOffset == 1       \* largest ListFilter.Offset
MaxFaultCalls == 2   \* service calls started by the single caller of SpecFault
MaxRaceCalls == 5    \* service calls started in SpecRace, the two before its start included
MaxPortCalls == 2    \* port calls made by the port client of SpecPorts
MaxRequests == 2     \* requests the HTTP server handles in SpecMain
MaxSignals == 2      \* signals the process is sent in SpecMain

\* two concurrent callers (HTTP requests in flight)
Procs == {"p1", "p2"}
Ids == 1 .. NumIds

\* the arguments Create is called with: (name, slug, plan)
CreateInputs ==
    { [name |-> "Acme", slug |-> "acme", plan |-> "free"],
      [name |-> "Globex", slug |-> "globex", plan |-> "pro"] }

---------------------------------------------------------------------------
(* internal/domain/tenant.go *)

StatusCreating == "creating"
StatusActive == "active"
StatusSuspended == "suspended"
StatusDeleting == "deleting"
StatusDeleted == "deleted"

Statuses ==
    {StatusCreating, StatusActive, StatusSuspended, StatusDeleting, StatusDeleted}

EventProvisionComplete == "provision_complete"
EventSuspend == "suspend"
EventReactivate == "reactivate"
EventDelete == "delete"
EventDeletionComplete == "deletion_complete"

Events ==
    {EventProvisionComplete, EventSuspend, EventReactivate, EventDelete,
     EventDeletionComplete}

\* variant: a table in which reactivate brings a deleted tenant back
TransitionsWithRevival ==
    << [Event |-> EventProvisionComplete, Src |-> StatusCreating, Dst |-> StatusActive],
       [Event |-> EventSuspend, Src |-> StatusActive, Dst |-> StatusSuspended],
       [Event |-> EventReactivate, Src |-> StatusSuspended, Dst |-> StatusActive],
       [Event |-> EventReactivate, Src |-> StatusDeleted, Dst |-> StatusActive],
       [Event |-> EventDelete, Src |-> StatusActive, Dst |-> StatusDeleting],
       [Event |-> EventDelete, Src |-> StatusSuspended, Dst |-> StatusDeleting],
       [Event |-> EventDeletionComplete, Src |-> StatusDeleting, Dst |-> StatusDeleted] >>

\* variant: a table in which suspend is also accepted from suspended
TransitionsWithReplay ==
    << [Event |-> EventProvisionComplete, Src |-> StatusCreating, Dst |-> StatusActive],
       [Event |-> EventSuspend, Src |-> StatusActive, Dst |-> StatusSuspended],
       [Event |-> EventSuspend, Src |-> StatusSuspended, Dst |-> StatusSuspended],
       [Event |-> EventReactivate, Src |-> StatusSuspended, Dst |-> StatusActive],
       [Event |-> EventDelete, Src |-> StatusActive, Dst |-> StatusDeleting],
       [Event |-> EventDelete, Src |-> StatusSuspended, Dst |-> StatusDeleting],
       [Event |-> EventDeletionComplete, Src |-> StatusDeleting, Dst |-> StatusDeleted] >>

\* variant: a table without the row out of deleting
TransitionsWithoutDeletionComplete ==
    << [Event |-> EventProvisionComplete, Src |-> StatusCreating, Dst |-> StatusActive],
       [Event |-> EventSuspend, Src |-> StatusActive, Dst |-> StatusSuspended],
       [Event |-> EventReactivate, Src |-> StatusSuspended, Dst |-> StatusActive],
       [Event |-> EventDelete, Src |-> StatusActive, Dst |-> StatusDeleting],
       [Event |-> EventDelete, Src |-> StatusSuspended, Dst |-> StatusDeleting] >>

\* variant: a table with a second row for delete from active
TransitionsWithSecondDelete ==
    << [Event |-> EventProvisionComplete, Src |-> StatusCreating, Dst |-> StatusActive],
       [Event |-> EventSuspend, Src |-> StatusActive, Dst |-> StatusSuspended],
       [Event |-> EventReactivate, Src |-> StatusSuspended, Dst |-> StatusActive],
       [Event |-> EventDelete, Src |-> StatusActive, Dst |-> StatusDeleting],
       [Event |-> EventDelete, Src |-> StatusActive, Dst |-> StatusDeleted],
       [Event |-> EventDelete, Src |-> StatusSuspended, Dst |-> StatusDeleting],
       [Event |-> EventDeletionComplete, Src |-> StatusDeleting, Dst |-> StatusDeleted] >>

Transitions ==
    << [Event |-> EventProvisionComplete, Src |-> StatusCreating, Dst |-> StatusActive],
       [Event |-> EventSuspend, Src |-> StatusActive, Dst |-> StatusSuspended],
       [Event |-> EventReactivate, Src |-> StatusSuspended, Dst |-> StatusActive],
       [Event |-> EventDelete, Src |-> StatusActive, Dst |-> StatusDeleting],
       [Event |-> EventDelete, Src |-> StatusSuspended, Dst |-> StatusDeleting],
       [Event |-> EventDeletionComplete, Src |-> StatusDeleting, Dst |-> StatusDeleted] >>

\* domain.Tenant{}: the zero value returned next to an error
ZeroTenant ==
    [ID |-> 0, Name |-> "", Slug |-> "", Status |-> "", Plan |-> "",
     CreatedAt |-> -1, UpdatedAt |-> -1]

\* variant: the constructor starts the tenant in "active"
NewTenantActive(id, name, slug, plan, t) ==
    [ID |-> id, Name |-> name, Slug |-> slug, Status |-> StatusActive,
     Plan |-> plan, CreatedAt |-> t, UpdatedAt |-> t]

NewTenant(id, name, slug, plan, t) ==
    [ID |-> id, Name |-> name, Slug |-> slug, Status |-> StatusCreating,
     Plan |-> plan, CreatedAt |-> t, UpdatedAt |-> t]

---------------------------------------------------------------------------
(* internal/domain/errors.go: an error value is its Unwrap chain, outermost *)
(* first; nil is the empty chain.                                           *)

NoErr == << >>

ErrTenantNotFound == << [kind |-> "ErrTenantNotFound", a |-> "", b |-> ""] >>

SlugConflictError(slug) == << [kind |-> "SlugConflictError", a |-> slug, b |-> ""] >>

TransitionError(event, current) ==
    << [kind |-> "TransitionError", a |-> event, b |-> current] >>

\* errors.New / an error of a driver or a library, identified by its text
ErrorsNew(text) == << [kind |-> "error", a |-> text, b |-> ""] >>

\* fmt.Errorf("<msg>: %w", err)
Errorf(msg, err) == << [kind |-> "wrap", a |-> msg, b |-> ""] >> \o err

\* errors.Is(err, target) for a sentinel target
ErrorsIs(err, target) == \E i \in 1 .. Len(err) : err[i] = target[1]

\* errors.As(err, &target) for a target of the given error type
ErrorsAs(err, kind) == \E i \in 1 .. Len(err) : err[i].kind = kind

\* the value errors.As stores in the target
AsTarget(err, kind) ==
    err[CHOOSE i \in 1 .. Len(err) :
            /\ err[i].kind = kind
            /\ \A j \in 1 .. (i - 1) : err[j].kind # kind]

---------------------------------------------------------------------------
(* internal/adapter/fsm/validator.go *)

RECURSIVE buildOrder(_)
\* the slice "order": the distinct (event, dst) keys in order of first use
buildOrder(n) ==
    IF n = 0 THEN << >>
    ELSE LET prev == buildOrder(n - 1)
             k == <<Transitions[n].Event, Transitions[n].Dst>>
         IN IF \E i \in 1 .. Len(prev) : prev[i] = k THEN prev
            ELSE Append(prev, k)

RECURSIVE buildOrderOf(_, _)
\* the same loop over the first n rows of a table tbl
buildOrderOf(tbl, n) ==
    IF n = 0 THEN << >>
    ELSE LET prev == buildOrderOf(tbl, n - 1)
             k == <<tbl[n].Event, tbl[n].Dst>>
         IN IF \E i \in 1 .. Len(prev) : prev[i] = k THEN prev
            ELSE Append(prev, k)

RECURSIVE buildGroupedOf(_, _, _)
buildGroupedOf(tbl, k, n) ==
    IF n = 0 THEN << >>
    ELSE IF <<tbl[n].Event, tbl[n].Dst>> = k
         THEN Append(buildGroupedOf(tbl, k, n - 1), tbl[n].Src)
         ELSE buildGroupedOf(tbl, k, n - 1)

\* buildEvents() run with domain.Transitions = tbl
buildEventsOf(tbl) ==
    LET order == buildOrderOf(tbl, Len(tbl))
    IN [i \in 1 .. Len(order) |->
            [Name |-> order[i][1],
             Src |-> buildGroupedOf(tbl, order[i], Len(tbl)),
             Dst |-> order[i][2]]]

\* fsm.New(): a Validator without fields; there is no error result
New == [err |-> NoErr]

\* variant: grouped[k] is overwritten, not appended to, so only the last
\* source of a key is kept
buildGroupedLastOnly(k, n) ==
    LET idx == {i \in 1 .. n : <<Transitions[i].Event, Transitions[i].Dst>> = k}
    IN IF idx = {} THEN << >>
       ELSE << Transitions[CHOOSE i \in idx : \A j \in idx : j <= i].Src >>

RECURSIVE buildGrouped(_, _)
\* the map entry grouped[k]: the sources appended for key k, in table order
buildGrouped(k, n) ==
    IF n = 0 THEN << >>
    ELSE IF <<Transitions[n].Event, Transitions[n].Dst>> = k
         THEN Append(buildGrouped(k, n - 1), Transitions[n].Src)
         ELSE buildGrouped(k, n - 1)

buildEvents ==
    LET order == buildOrder(Len(Transitions))
    IN [i \in 1 .. Len(order) |->
            [Name |-> order[i][1],
             Src |-> buildGrouped(order[i], Len(Transitions)),
             Dst |-> order[i][2]]]

events == buildEvents

\* variant: only the first source of each descriptor is registered
NewFSMFirstSrcOnly(initial, evs) ==
    LET holds(i, k) == /\ evs[i].Name = k[1]
                       /\ Len(evs[i].Src) > 0 /\ evs[i].Src[1] = k[2]
        allKeys == {k \in Events \X Statuses : \E i \in 1 .. Len(evs) : holds(i, k)}
        last(k) == CHOOSE i \in 1 .. Len(evs) :
                       /\ holds(i, k)
                       /\ \A j \in (i + 1) .. Len(evs) : ~holds(j, k)
    IN [current |-> initial,
        transitions |-> [k \in allKeys |-> evs[last(k)].Dst]]

\* loopfsm.NewFSM(initial, events, nil): the transitions map is filled
\* descriptor by descriptor, a later descriptor overwriting an earlier key
NewFSM(initial, evs) ==
    LET holds(i, k) == /\ evs[i].Name = k[1]
                       /\ \E j \in 1 .. Len(evs[i].Src) : evs[i].Src[j] = k[2]
        allKeys == {k \in Events \X Statuses : \E i \in 1 .. Len(evs) : holds(i, k)}
        last(k) == CHOOSE i \in 1 .. Len(evs) :
                       /\ holds(i, k)
                       /\ \A j \in (i + 1) .. Len(evs) : ~holds(j, k)
    IN [current |-> initial,
        transitions |-> [k \in allKeys |-> evs[last(k)].Dst]]

\* (*FSM).Event(ctx, event) on an instance with no callbacks
FSMEvent(f, event) ==
    IF <<event, f.current>> \notin DOMAIN f.transitions
    THEN IF \E k \in DOMAIN f.transitions : k[1] = event
         THEN [f |-> f, err |-> ErrorsNew("InvalidEventError")]
         ELSE [f |-> f, err |-> ErrorsNew("UnknownEventError")]
    ELSE LET dst == f.transitions[<<event, f.current>>]
         IN IF f.current = dst
            THEN [f |-> f, err |-> ErrorsNew("NoTransitionError")]
            ELSE [f |-> [f EXCEPT !.current = dst], err |-> NoErr]

\* variant: only NoTransitionError is translated, InvalidEventError is
\* returned as it is
ApplyResultOnlyNoTransition(current, event, f, err) ==
    IF err # NoErr
    THEN IF ErrorsIs(err, ErrorsNew("NoTransitionError"))
         THEN [status |-> "", err |-> TransitionError(event, current)]
         ELSE [status |-> "", err |-> err]
    ELSE [status |-> f.current, err |-> NoErr]

\* lines 65-77 of Apply: what is returned for the outcome of machine.Event
ApplyResult(current, event, f, err) ==
    IF err # NoErr
    THEN IF \/ ErrorsIs(err, ErrorsNew("InvalidEventError"))
            \/ ErrorsIs(err, ErrorsNew("NoTransitionError"))
         THEN [status |-> "", err |-> TransitionError(event, current)]
         ELSE [status |-> "", err |-> err]
    ELSE [status |-> f.current, err |-> NoErr]

\* Validator.Apply as one call
Apply(current, event) ==
    LET r == FSMEvent(NewFSM(current, events), event)
    IN ApplyResult(current, event, r.f, r.err)

---------------------------------------------------------------------------
(* internal/app/service.go: findTransition *)

RECURSIVE scanTransitions(_, _, _)
scanTransitions(i, current, event) ==
    IF i > Len(Transitions) THEN [dst |-> "", ok |-> FALSE]
    ELSE IF Transitions[i].Event = event /\ Transitions[i].Src = current
         THEN [dst |-> Transitions[i].Dst, ok |-> TRUE]
         ELSE scanTransitions(i + 1, current, event)

RECURSIVE scanTransitionsOf(_, _, _, _)
\* the same scan over a table tbl
scanTransitionsOf(tbl, i, current, event) ==
    IF i > Len(tbl) THEN [dst |-> "", ok |-> FALSE]
    ELSE IF tbl[i].Event = event /\ tbl[i].Src = current
         THEN [dst |-> tbl[i].Dst, ok |-> TRUE]
         ELSE scanTransitionsOf(tbl, i + 1, current, event)

\* variant: the scan compares the event only, not the source status
findTransitionAnySrc(current, event) ==
    IF \E i \in 1 .. Len(Transitions) : Transitions[i].Event = event
    THEN [dst |-> Transitions[CHOOSE i \in 1 .. Len(Transitions) :
                        /\ Transitions[i].Event = event
                        /\ \A j \in 1 .. (i - 1) : Transitions[j].Event # event].Dst,
          ok |-> TRUE]
    ELSE [dst |-> "", ok |-> FALSE]

findTransition(current, event) == scanTransitions(1, current, event)

---------------------------------------------------------------------------
(* internal/adapter/sqlite/repository.go.  A row of the table holds its     *)
(* timestamps as text in timeFormat, which has whole seconds only.          *)

\* t.Format(timeFormat): the second a clock reading lies in
Format(t) == t \div TicksPerSecond

\* time.Parse(timeFormat, s): the clock reading at the start of that second
Parse(s) == s * TicksPerSecond

\* a failure of the database driver (I/O, lock, cancelled context)
DriverError == ErrorsNew("driver")

\* the CHECK constraint of the column status
StatusCheck(status) == status \in Statuses

\* variant: the column slug is not declared UNIQUE
UniqueViolationKeyOnly(db, id, slug, inserting) ==
    inserting /\ id \in DOMAIN db

\* the PRIMARY KEY and UNIQUE(slug) constraints, for a row put at id
UniqueViolation(db, id, slug, inserting) ==
    \/ inserting /\ id \in DOMAIN db
    \/ \E i \in DOMAIN db : i # id /\ db[i].slug = slug

\* scanTenant / scanTenantFromRows on a row that was found
scanRow(id, row) ==
    [ID |-> id, Name |-> row.name, Slug |-> row.slug, Status |-> row.status,
     Plan |-> row.plan, CreatedAt |-> Parse(row.created_at),
     UpdatedAt |-> Parse(row.updated_at)]

\* variant: a UNIQUE violation is not recognised and is wrapped like any
\* other driver error
RepoCreateGenericDuplicate(db, t, fails) ==
    IF fails
    THEN [db |-> db, err |-> Errorf("inserting tenant", DriverError)]
    ELSE IF UniqueViolation(db, t.ID, t.Slug, TRUE) \/ ~StatusCheck(t.Status)
    THEN [db |-> db, err |-> Errorf("inserting tenant", ErrorsNew("constraint failed"))]
    ELSE [db |-> [i \in DOMAIN db \cup {t.ID} |->
                    IF i = t.ID
                    THEN [name |-> t.Name, slug |-> t.Slug, status |-> t.Status,
                          plan |-> t.Plan, created_at |-> Format(t.CreatedAt),
                          updated_at |-> Format(t.UpdatedAt)]
                    ELSE db[i]],
          err |-> NoErr]

\* TenantRepository.Create; fails stands for a failing driver
RepoCreate(db, t, fails) ==
    IF fails
    THEN [db |-> db, err |-> Errorf("inserting tenant", DriverError)]
    ELSE IF UniqueViolation(db, t.ID, t.Slug, TRUE)
    THEN [db |-> db, err |-> SlugConflictError(t.Slug)]
    ELSE IF ~StatusCheck(t.Status)
    THEN [db |-> db, err |-> Errorf("inserting tenant", ErrorsNew("CHECK constraint failed"))]
    ELSE [db |-> [i \in DOMAIN db \cup {t.ID} |->
                    IF i = t.ID
                    THEN [name |-> t.Name, slug |-> t.Slug, status |-> t.Status,
                          plan |-> t.Plan, created_at |-> Format(t.CreatedAt),
                          updated_at |-> Format(t.UpdatedAt)]
                    ELSE db[i]],
          err |-> NoErr]

\* TenantRepository.GetByID
\* variant: a missing row is not reported, the zero tenant is returned
RepoGetByIDMissIsZero(db, id, fails) ==
    IF fails
    THEN [tenant |-> ZeroTenant, err |-> Errorf("scanning tenant", DriverError)]
    ELSE IF id \in DOMAIN db
    THEN [tenant |-> scanRow(id, db[id]), err |-> NoErr]
    ELSE [tenant |-> ZeroTenant, err |-> NoErr]

RepoGetByID(db, id, fails) ==
    IF fails
    THEN [tenant |-> ZeroTenant, err |-> Errorf("scanning tenant", DriverError)]
    ELSE IF id \in DOMAIN db
    THEN [tenant |-> scanRow(id, db[id]), err |-> NoErr]
    ELSE [tenant |-> ZeroTenant, err |-> ErrTenantNotFound]

\* variant: the query compares the column name with the slug
RepoGetBySlugByName(db, slug, fails) ==
    IF fails
    THEN [tenant |-> ZeroTenant, err |-> Errorf("scanning tenant", DriverError)]
    ELSE IF \E i \in DOMAIN db : db[i].name = slug
    THEN LET id == CHOOSE i \in DOMAIN db : db[i].name = slug
         IN [tenant |-> scanRow(id, db[id]), err |-> NoErr]
    ELSE [tenant |-> ZeroTenant, err |-> ErrTenantNotFound]

\* TenantRepository.GetBySlug
RepoGetBySlug(db, slug, fails) ==
    IF fails
    THEN [tenant |-> ZeroTenant, err |-> Errorf("scanning tenant", DriverError)]
    ELSE IF \E i \in DOMAIN db : db[i].slug = slug
    THEN LET id == CHOOSE i \in DOMAIN db : db[i].slug = slug
         IN [tenant |-> scanRow(id, db[id]), err |-> NoErr]
    ELSE [tenant |-> ZeroTenant, err |-> ErrTenantNotFound]

\* variant: the status is written as its position in the declaration order
RepoUpdateOrdinalStatus(db, tn, t, fails) ==
    IF fails
    THEN [db |-> db, err |-> Errorf("updating tenant", DriverError)]
    ELSE IF tn.ID \notin DOMAIN db
    THEN [db |-> db, err |-> ErrTenantNotFound]
    ELSE [db |-> [db EXCEPT ![tn.ID] =
                    [name |-> tn.Name, slug |-> tn.Slug,
                     status |-> IF tn.Status = StatusActive THEN "1" ELSE "2",
                     plan |-> tn.Plan, created_at |-> @.created_at,
                     updated_at |-> Format(t)]],
          err |-> NoErr]

\* variant: the UPDATE also rewrites created_at
RepoUpdateResetsCreatedAt(db, tn, t, fails) ==
    IF fails
    THEN [db |-> db, err |-> Errorf("updating tenant", DriverError)]
    ELSE IF tn.ID \notin DOMAIN db
    THEN [db |-> db, err |-> ErrTenantNotFound]
    ELSE IF UniqueViolation(db, tn.ID, tn.Slug, FALSE)
    THEN [db |-> db, err |-> SlugConflictError(tn.Slug)]
    ELSE IF ~StatusCheck(tn.Status)
    THEN [db |-> db, err |-> Errorf("updating tenant", ErrorsNew("CHECK constraint failed"))]
    ELSE [db |-> [db EXCEPT ![tn.ID] =
                    [name |-> tn.Name, slug |-> tn.Slug, status |-> tn.Status,
                     plan |-> tn.Plan, created_at |-> Format(t),
                     updated_at |-> Format(t)]],
          err |-> NoErr]

\* variant: the number of rows the UPDATE affected is not looked at
RepoUpdateNoRowCheck(db, tn, t, fails) ==
    IF fails
    THEN [db |-> db, err |-> Errorf("updating tenant", DriverError)]
    ELSE IF tn.ID \notin DOMAIN db
    THEN [db |-> db, err |-> NoErr]
    ELSE IF UniqueViolation(db, tn.ID, tn.Slug, FALSE)
    THEN [db |-> db, err |-> SlugConflictError(tn.Slug)]
    ELSE IF ~StatusCheck(tn.Status)
    THEN [db |-> db, err |-> Errorf("updating tenant", ErrorsNew("CHECK constraint failed"))]
    ELSE [db |-> [db EXCEPT ![tn.ID] =
                    [name |-> tn.Name, slug |-> tn.Slug, status |-> tn.Status,
                     plan |-> tn.Plan, created_at |-> @.created_at,
                     updated_at |-> Format(t)]],
          err |-> NoErr]

\* variant: the UPDATE does not set updated_at
RepoUpdateKeepsUpdatedAt(db, tn, t, fails) ==
    IF fails
    THEN [db |-> db, err |-> Errorf("updating tenant", DriverError)]
    ELSE IF tn.ID \notin DOMAIN db
    THEN [db |-> db, err |-> ErrTenantNotFound]
    ELSE IF UniqueViolation(db, tn.ID, tn.Slug, FALSE)
    THEN [db |-> db, err |-> SlugConflictError(tn.Slug)]
    ELSE IF ~StatusCheck(tn.Status)
    THEN [db |-> db, err |-> Errorf("updating tenant", ErrorsNew("CHECK constraint failed"))]
    ELSE [db |-> [db EXCEPT ![tn.ID] =
                    [name |-> tn.Name, slug |-> tn.Slug, status |-> tn.Status,
                     plan |-> tn.Plan, created_at |-> @.created_at,
                     updated_at |-> @.updated_at]],
          err |-> NoErr]

\* variant: writing the status deleted removes the row
RepoUpdatePurgesDeleted(db, tn, t, fails) ==
    IF fails
    THEN [db |-> db, err |-> Errorf("updating tenant", DriverError)]
    ELSE IF tn.ID \notin DOMAIN db
    THEN [db |-> db, err |-> ErrTenantNotFound]
    ELSE IF UniqueViolation(db, tn.ID, tn.Slug, FALSE)
    THEN [db |-> db, err |-> SlugConflictError(tn.Slug)]
    ELSE IF ~StatusCheck(tn.Status)
    THEN [db |-> db, err |-> Errorf("updating tenant", ErrorsNew("CHECK constraint failed"))]
    ELSE IF tn.Status = StatusDeleted
    THEN [db |-> [i \in DOMAIN db \ {tn.ID} |-> db[i]], err |-> NoErr]
    ELSE [db |-> [db EXCEPT ![tn.ID] =
                    [name |-> tn.Name, slug |-> tn.Slug, status |-> tn.Status,
                     plan |-> tn.Plan, created_at |-> @.created_at,
                     updated_at |-> Format(t)]],
          err |-> NoErr]

\* TenantRepository.Update at clock reading t
RepoUpdate(db, tn, t, fails) ==
    IF fails
    THEN [db |-> db, err |-> Errorf("updating tenant", DriverError)]
    ELSE IF tn.ID \notin DOMAIN db
    THEN [db |-> db, err |-> ErrTenantNotFound]
    ELSE IF UniqueViolation(db, tn.ID, tn.Slug, FALSE)
    THEN [db |-> db, err |-> SlugConflictError(tn.Slug)]
    ELSE IF ~StatusCheck(tn.Status)
    THEN [db |-> db, err |-> Errorf("updating tenant", ErrorsNew("CHECK constraint failed"))]
    ELSE [db |-> [db EXCEPT ![tn.ID] =
                    [name |-> tn.Name, slug |-> tn.Slug, status |-> tn.Status,
                     plan |-> tn.Plan, created_at |-> @.created_at,
                     updated_at |-> Format(t)]],
          err |-> NoErr]

\* scanTenantFromRows: one row of a result set as a domain.Tenant
scanTenantFromRows(id, row) ==
    [ID |-> id, Name |-> row.name, Slug |-> row.slug, Status |-> row.status,
     Plan |-> row.plan, CreatedAt |-> Parse(row.created_at),
     UpdatedAt |-> Parse(row.updated_at)]

\* domain.ListFilter: Status is a pointer, << >> for nil and <<s>> for &s
ListFilters ==
    { [Status |-> st, Limit |-> l, Offset |-> o] :
        st \in {<< >>} \cup {<<x>> : x \in Statuses},
        l \in 0 .. MaxLimit, o \in 0 .. MaxOffset }

\* the optional clauses of the query text List builds
HasWhere(filter) == filter.Status # << >>
HasLimit(filter) == filter.Limit > 0
HasOffset(filter) == filter.Offset > 0

\* SQLite's grammar has OFFSET only as a part of the LIMIT clause:
\* "... ORDER BY created_at DESC OFFSET ?" is rejected when it is prepared
QueryParses(filter) == HasOffset(filter) => HasLimit(filter)

\* WHERE status = ?
Matching(db, filter) ==
    {i \in DOMAIN db : HasWhere(filter) => db[i].status = filter.Status[1]}

\* ORDER BY created_at DESC: every order of the ids that is descending in
\* created_at (rows with equal created_at come in an order SQLite chooses)
OrderedByCreatedAtDesc(db, ids) ==
    {o \in [1 .. Cardinality(ids) -> ids] :
        /\ \A i, j \in 1 .. Cardinality(ids) : o[i] = o[j] => i = j
        /\ \A i, j \in 1 .. Cardinality(ids) :
              i < j => db[o[i]].created_at >= db[o[j]].created_at}

\* LIMIT ? OFFSET ?
Page(o, filter) ==
    LET first == IF HasOffset(filter) THEN filter.Offset + 1 ELSE 1
        last == IF HasLimit(filter) /\ first + filter.Limit - 1 < Len(o)
                THEN first + filter.Limit - 1 ELSE Len(o)
    IN SubSeq(o, first, last)

\* variant: the status filter is not put into the query
RepoListNoWhere(db, filter, fails) ==
    IF fails \/ ~QueryParses(filter)
    THEN {[tenants |-> << >>, err |-> Errorf("listing tenants", DriverError)]}
    ELSE {[tenants |-> [k \in 1 .. Len(Page(o, filter)) |->
                          scanTenantFromRows(Page(o, filter)[k], db[Page(o, filter)[k]])],
           err |-> NoErr] : o \in OrderedByCreatedAtDesc(db, DOMAIN db)}

\* TenantRepository.List: the results the query may give
RepoList(db, filter, fails) ==
    IF fails
    THEN {[tenants |-> << >>, err |-> Errorf("listing tenants", DriverError)]}
    ELSE IF ~QueryParses(filter)
    THEN {[tenants |-> << >>,
           err |-> Errorf("listing tenants", ErrorsNew("near \"OFFSET\": syntax error"))]}
    ELSE {[tenants |-> [k \in 1 .. Len(Page(o, filter)) |->
                          scanTenantFromRows(Page(o, filter)[k], db[Page(o, filter)[k]])],
           err |-> NoErr] : o \in OrderedByCreatedAtDesc(db, Matching(db, filter))}

---------------------------------------------------------------------------
(* domain.EventPublisher: the port accepts the event or fails.             *)

PublisherPublish(log, event, tn, fails) ==
    IF fails
    THEN [log |-> log, err |-> ErrorsNew("queue down")]
    ELSE [log |-> Append(log, [event |-> event, tenant |-> tn]), err |-> NoErr]

\* time.Now(): what the clock may show when it is read, given its last reading
ClockReadings == now .. MaxTime

\* app.generateID: a random id, or the failure of crypto/rand
GenerateIDResults ==
    {[id |-> i, err |-> NoErr] : i \in Ids} \cup {[id |-> 0, err |-> ErrorsNew("rand")]}

---------------------------------------------------------------------------
(* internal/app/service.go: the calls of concurrent callers, one action per *)
(* port call.                                                               *)

NoArgs == [op |-> "", name |-> "", slug |-> "", plan |-> "", id |-> 0, event |-> ""]

NoRet == [tenant |-> ZeroTenant, err |-> NoErr]

\* return (t, e): the call of p ends and its frame is gone
Return(p, t, e) ==
    /\ pc' = [pc EXCEPT ![p] = "done"]
    /\ ret' = [ret EXCEPT ![p] = [tenant |-> t, err |-> e]]
    /\ tenant' = [tenant EXCEPT ![p] = ZeroTenant]
    /\ args' = [args EXCEPT ![p] = NoArgs]

CanCall(p) == pc[p] \in {"idle", "done"}

CallCreate(p, in) ==
    /\ CanCall(p)
    /\ ncalls' = ncalls + 1
    /\ pc' = [pc EXCEPT ![p] = "create_check"]
    /\ args' = [args EXCEPT ![p] =
                  [NoArgs EXCEPT !.op = "Create", !.name = in.name, !.slug = in.slug,
                                 !.plan = in.plan]]
    /\ tenant' = [tenant EXCEPT ![p] = ZeroTenant]
    /\ ret' = [ret EXCEPT ![p] = NoRet]
    /\ failed' = FALSE
    /\ UNCHANGED <<tenants, published, now>>

\* Create, lines 26-29: the uniqueness pre-check
CreateCheck(p) ==
    /\ pc[p] = "create_check"
    /\ \E fails \in BOOLEAN :
         LET r == RepoGetBySlug(tenants, args[p].slug, fails)
         IN /\ failed' = fails
            /\ IF r.err = NoErr
               THEN Return(p, ZeroTenant, SlugConflictError(args[p].slug))
               ELSE /\ pc' = [pc EXCEPT ![p] = "create_persist"]
                    /\ UNCHANGED <<tenant, ret, args>>
    /\ UNCHANGED <<tenants, published, now, ncalls>>

\* variant: the error of repo.Create is dropped and the call goes on to publish
CreatePersistIgnoresError(p) ==
    /\ pc[p] = "create_persist"
    /\ \E g \in GenerateIDResults, fails \in BOOLEAN :
         IF g.err # NoErr
         THEN /\ Return(p, ZeroTenant, Errorf("generating tenant id", g.err))
              /\ failed' = FALSE
              /\ UNCHANGED <<tenants, now>>
         ELSE \E reading \in ClockReadings :
              LET t == NewTenant(g.id, args[p].name, args[p].slug, args[p].plan, reading)
                  r == RepoCreate(tenants, t, fails)
              IN /\ now' = reading
                 /\ failed' = fails
                 /\ tenants' = r.db
                 /\ tenant' = [tenant EXCEPT ![p] = t]
                 /\ pc' = [pc EXCEPT ![p] = "create_publish"]
                 /\ UNCHANGED <<ret, args>>
    /\ UNCHANGED <<published, ncalls>>

\* Create, lines 31-40: generateID, NewTenant (which reads the clock) and
\* repo.Create
CreatePersist(p) ==
    /\ pc[p] = "create_persist"
    /\ \E g \in GenerateIDResults, fails \in BOOLEAN :
         IF g.err # NoErr
         THEN /\ Return(p, ZeroTenant, Errorf("generating tenant id", g.err))
              /\ failed' = FALSE
              /\ UNCHANGED <<tenants, now>>
         ELSE \E reading \in ClockReadings :
              LET t == NewTenant(g.id, args[p].name, args[p].slug, args[p].plan, reading)
                  r == RepoCreate(tenants, t, fails)
              IN /\ now' = reading
                 /\ failed' = fails
                 /\ IF r.err # NoErr
                    THEN /\ Return(p, ZeroTenant, Errorf("creating tenant", r.err))
                         /\ UNCHANGED tenants
                    ELSE /\ tenants' = r.db
                         /\ tenant' = [tenant EXCEPT ![p] = t]
                         /\ pc' = [pc EXCEPT ![p] = "create_publish"]
                         /\ UNCHANGED <<ret, args>>
    /\ UNCHANGED <<published, ncalls>>

\* variant: the creation event is tagged with the wrong event
CreatePublishWrongTag(p) ==
    /\ pc[p] = "create_publish"
    /\ \E fails \in BOOLEAN :
         LET r == PublisherPublish(published, EventDeletionComplete, tenant[p], fails)
         IN /\ published' = r.log
            /\ failed' = fails
            /\ IF r.err # NoErr
               THEN Return(p, ZeroTenant, Errorf("publishing creation event", r.err))
               ELSE Return(p, tenant[p], NoErr)
    /\ UNCHANGED <<tenants, now, ncalls>>

\* variant: a failed publish removes the row that was just inserted
CreatePublishRollback(p) ==
    /\ pc[p] = "create_publish"
    /\ \E fails \in BOOLEAN :
         LET r == PublisherPublish(published, EventProvisionComplete, tenant[p], fails)
         IN /\ published' = r.log
            /\ failed' = fails
            /\ IF r.err # NoErr
               THEN /\ Return(p, ZeroTenant, Errorf("publishing creation event", r.err))
                    /\ tenants' = [i \in DOMAIN tenants \ {tenant[p].ID} |-> tenants[i]]
               ELSE /\ Return(p, tenant[p], NoErr)
                    /\ UNCHANGED tenants
    /\ UNCHANGED <<now, ncalls>>

\* Create, lines 42-46: publish the creation event and return
CreatePublish(p) ==
    /\ pc[p] = "create_publish"
    /\ \E fails \in BOOLEAN :
         LET r == PublisherPublish(published, EventProvisionComplete, tenant[p], fails)
         IN /\ published' = r.log
            /\ failed' = fails
            /\ IF r.err # NoErr
               THEN Return(p, ZeroTenant, Errorf("publishing creation event", r.err))
               ELSE Return(p, tenant[p], NoErr)
    /\ UNCHANGED <<tenants, now, ncalls>>

CallTransition(p, id, event) ==
    /\ CanCall(p)
    /\ ncalls' = ncalls + 1
    /\ pc' = [pc EXCEPT ![p] = "tr_load"]
    /\ args' = [args EXCEPT ![p] =
                  [NoArgs EXCEPT !.op = "Transition", !.id = id, !.event = event]]
    /\ tenant' = [tenant EXCEPT ![p] = ZeroTenant]
    /\ ret' = [ret EXCEPT ![p] = NoRet]
    /\ failed' = FALSE
    /\ UNCHANGED <<tenants, published, now>>

\* variant: the destination is computed but not assigned to tenant.Status
TransitionLoadNoAssign(p) ==
    /\ pc[p] = "tr_load"
    /\ \E fails \in BOOLEAN :
         LET r == RepoGetByID(tenants, args[p].id, fails)
             f == findTransition(r.tenant.Status, args[p].event)
         IN /\ failed' = fails
            /\ IF r.err # NoErr
               THEN Return(p, ZeroTenant, r.err)
               ELSE IF ~f.ok
               THEN Return(p, ZeroTenant, TransitionError(args[p].event, r.tenant.Status))
               ELSE /\ tenant' = [tenant EXCEPT ![p] = r.tenant]
                    /\ pc' = [pc EXCEPT ![p] = "tr_update"]
                    /\ UNCHANGED <<ret, args>>
    /\ UNCHANGED <<tenants, published, now, ncalls>>

\* Transition, lines 61-74: repo.GetByID, findTransition, tenant.Status = dst
TransitionLoad(p) ==
    /\ pc[p] = "tr_load"
    /\ \E fails \in BOOLEAN :
         LET r == RepoGetByID(tenants, args[p].id, fails)
             f == findTransition(r.tenant.Status, args[p].event)
         IN /\ failed' = fails
            /\ IF r.err # NoErr
               THEN Return(p, ZeroTenant, r.err)
               ELSE IF ~f.ok
               THEN Return(p, ZeroTenant, TransitionError(args[p].event, r.tenant.Status))
               ELSE /\ tenant' = [tenant EXCEPT ![p] = [r.tenant EXCEPT !.Status = f.dst]]
                    /\ pc' = [pc EXCEPT ![p] = "tr_update"]
                    /\ UNCHANGED <<ret, args>>
    /\ UNCHANGED <<tenants, published, now, ncalls>>

\* variant: the error of repo.Update is dropped and the call goes on to publish
TransitionUpdateIgnoresError(p) ==
    /\ pc[p] = "tr_update"
    /\ \E fails \in BOOLEAN, reading \in ClockReadings :
         LET r == RepoUpdate(tenants, tenant[p], reading, fails)
         IN /\ now' = reading
            /\ failed' = fails
            /\ tenants' = r.db
            /\ pc' = [pc EXCEPT ![p] = "tr_publish"]
            /\ UNCHANGED <<tenant, ret, args>>
    /\ UNCHANGED <<published, ncalls>>

\* Transition, lines 76-78: repo.Update (which reads the clock)
TransitionUpdate(p) ==
    /\ pc[p] = "tr_update"
    /\ \E fails \in BOOLEAN, reading \in ClockReadings :
         LET r == RepoUpdate(tenants, tenant[p], reading, fails)
         IN /\ now' = reading
            /\ failed' = fails
            /\ IF r.err # NoErr
               THEN /\ Return(p, ZeroTenant, Errorf("updating tenant", r.err))
                    /\ UNCHANGED tenants
               ELSE /\ tenants' = r.db
                    /\ pc' = [pc EXCEPT ![p] = "tr_publish"]
                    /\ UNCHANGED <<tenant, ret, args>>
    /\ UNCHANGED <<published, ncalls>>

\* variant: the error of Publish is dropped and the tenant is returned
TransitionPublishIgnoresError(p) ==
    /\ pc[p] = "tr_publish"
    /\ \E fails \in BOOLEAN :
         LET r == PublisherPublish(published, args[p].event, tenant[p], fails)
         IN /\ published' = r.log
            /\ failed' = fails
            /\ Return(p, tenant[p], NoErr)
    /\ UNCHANGED <<tenants, now, ncalls>>

\* variant: a failed publish writes the source status back
TransitionPublishRollback(p) ==
    /\ pc[p] = "tr_publish"
    /\ \E fails \in BOOLEAN :
         LET r == PublisherPublish(published, args[p].event, tenant[p], fails)
             row == CHOOSE i \in 1 .. Len(Transitions) :
                        /\ Transitions[i].Event = args[p].event
                        /\ Transitions[i].Dst = tenant[p].Status
         IN /\ published' = r.log
            /\ failed' = fails
            /\ IF r.err # NoErr
               THEN /\ Return(p, ZeroTenant, Errorf("publishing event", r.err))
                    /\ tenants' = [tenants EXCEPT ![tenant[p].ID].status =
                                                      Transitions[row].Src]
               ELSE /\ Return(p, tenant[p], NoErr)
                    /\ UNCHANGED tenants
    /\ UNCHANGED <<now, ncalls>>

\* Transition, lines 80-84: publish the event and return
TransitionPublish(p) ==
    /\ pc[p] = "tr_publish"
    /\ \E fails \in BOOLEAN :
         LET r == PublisherPublish(published, args[p].event, tenant[p], fails)
         IN /\ published' = r.log
            /\ failed' = fails
            /\ IF r.err # NoErr
               THEN Return(p, ZeroTenant, Errorf("publishing event", r.err))
               ELSE Return(p, tenant[p], NoErr)
    /\ UNCHANGED <<tenants, now, ncalls>>

\* variant: the not-found error is compared with ==, without unwrapping
toHumaErrorNoUnwrap(err) ==
    IF err = ErrTenantNotFound THEN 404
    ELSE IF ErrorsAs(err, "SlugConflictError") THEN 409
    ELSE IF ErrorsAs(err, "TransitionError") THEN 422
    ELSE 500

\* internal/adapter/http: toHumaError, the status of the response built for
\* an error of the service
toHumaError(err) ==
    IF ErrorsIs(err, ErrTenantNotFound) THEN 404
    ELSE IF ErrorsAs(err, "SlugConflictError") THEN 409
    ELSE IF ErrorsAs(err, "TransitionError") THEN 422
    ELSE 500

\* no List call yet
NoList ==
    [filter |-> [Status |-> << >>, Limit |-> 0, Offset |-> 0],
     tenants |-> << >>, err |-> NoErr, calls |-> 0]

\* TenantService.List: pure delegation to repo.List
List(p, filter) ==
    /\ CanCall(p)
    /\ ncalls' = ncalls + 1
    /\ \E fails \in BOOLEAN :
         \E r \in RepoList(tenants, filter, fails) :
            /\ failed' = fails
            /\ listed' = [filter |-> filter, tenants |-> r.tenants, err |-> r.err,
                          calls |-> 1]
    /\ pc' = [pc EXCEPT ![p] = "done"]
    /\ ret' = [ret EXCEPT ![p] = NoRet]
    /\ args' = [args EXCEPT ![p] = NoArgs]
    /\ UNCHANGED <<tenants, published, now, tenant>>

\* a lookup that answers with the first stored row whatever id was asked
GetByIDFirstRow(p, id) ==
    /\ CanCall(p)
    /\ ncalls' = ncalls + 1
    /\ \E fails \in BOOLEAN :
         LET first == IF DOMAIN tenants = {} THEN id
                      ELSE CHOOSE i \in DOMAIN tenants : \A j \in DOMAIN tenants : i <= j
             r == RepoGetByID(tenants, first, fails)
         IN  /\ failed' = fails
             /\ ret' = [ret EXCEPT ![p] = [tenant |-> r.tenant, err |-> r.err]]
    /\ pc' = [pc EXCEPT ![p] = "done"]
    /\ args' = [args EXCEPT ![p] = [NoArgs EXCEPT !.op = "GetByID", !.id = id]]
    /\ tenant' = [tenant EXCEPT ![p] = ZeroTenant]
    /\ UNCHANGED <<tenants, published, now>>

\* TenantService.GetByID: pure delegation to repo.GetByID; the caller keeps
\* the id it asked for next to the result
GetByID(p, id) ==
    /\ CanCall(p)
    /\ ncalls' = ncalls + 1
    /\ \E fails \in BOOLEAN :
         LET r == RepoGetByID(tenants, id, fails)
         IN  /\ failed' = fails
             /\ ret' = [ret EXCEPT ![p] = [tenant |-> r.tenant, err |-> r.err]]
    /\ pc' = [pc EXCEPT ![p] = "done"]
    /\ args' = [args EXCEPT ![p] = [NoArgs EXCEPT !.op = "GetByID", !.id = id]]
    /\ tenant' = [tenant EXCEPT ![p] = ZeroTenant]
    /\ UNCHANGED <<tenants, published, now>>

---------------------------------------------------------------------------
(* A client of Validator.Apply: each call builds a fresh machine, fires the *)
(* event on it and maps the outcome.                                        *)

NoMachine == [current |-> "", transitions |-> << >>]

VCall(current, event) ==
    /\ vpc \in {"idle", "done"}
    /\ vcalls < MaxApplyCalls
    /\ vcalls' = vcalls + 1
    /\ vin' = [current |-> current, event |-> event]
    /\ vpc' = "new"
    /\ verr' = NoErr
    /\ UNCHANGED machine   \* the machine of the last call, until line 63 replaces it
    /\ vout' = [status |-> "", err |-> NoErr]

\* variant: one machine is built on the first call and kept for the next
VNewFSMShared ==
    /\ vpc = "new"
    /\ machine' = IF machine = NoMachine THEN NewFSM(vin.current, events) ELSE machine
    /\ vpc' = "event"
    /\ UNCHANGED <<vin, verr, vout, vcalls>>

\* line 63
VNewFSM ==
    /\ vpc = "new"
    /\ machine' = NewFSM(vin.current, events)
    /\ vpc' = "event"
    /\ UNCHANGED <<vin, verr, vout, vcalls>>

\* line 65
VEvent ==
    /\ vpc = "event"
    /\ LET r == FSMEvent(machine, vin.event)
       IN machine' = r.f /\ verr' = r.err
    /\ vpc' = "map"
    /\ UNCHANGED <<vin, vout, vcalls>>

\* lines 65-77
VReturn ==
    /\ vpc = "map"
    /\ vout' = ApplyResult(vin.current, vin.event, machine, verr)
    /\ vpc' = "done"
    /\ UNCHANGED <<vin, machine, verr, vcalls>>

---------------------------------------------------------------------------
(* internal/adapter/river: the publisher that enqueues River jobs, and      *)
(* internal/adapter/otel: the tracing decorators around the two ports.      *)

\* EventJobArgs{...} as Publish fills it
EventJobArgs(event, tn) ==
    [Event |-> event, TenantID |-> tn.ID, Name |-> tn.Name, Slug |-> tn.Slug,
     Status |-> tn.Status, Plan |-> tn.Plan]

\* variant: the job's status is taken from the event, not from the tenant
RiverPublishEventAsStatus(q, event, tn, fails) ==
    IF fails
    THEN [jobs |-> q, err |-> Errorf("enqueuing event job", ErrorsNew("insert failed"))]
    ELSE [jobs |-> Append(q, [EventJobArgs(event, tn) EXCEPT !.Status = event]),
          err |-> NoErr]

\* river.Publisher.Publish on the queue q: client.Insert adds one job or fails
RiverPublish(q, event, tn, fails) ==
    IF fails
    THEN [jobs |-> q, err |-> Errorf("enqueuing event job", ErrorsNew("insert failed"))]
    ELSE [jobs |-> Append(q, EventJobArgs(event, tn)), err |-> NoErr]

\* the arguments of a port call; the fields an operation does not take keep
\* their zero value
NoPortArgs ==
    [tenant |-> ZeroTenant, id |-> 0, slug |-> "",
     filter |-> [Status |-> << >>, Limit |-> 0, Offset |-> 0], event |-> ""]

\* what a port call returns; the fields an operation does not return keep
\* their zero value
PortResult(t, ts, e) == [tenant |-> t, tenants |-> ts, err |-> e]

\* the span of a decorator: tracer.Start with the attributes, RecordError
\* and SetStatus(codes.Error) when the wrapped call failed, End
Span(name, attrs, err) ==
    [name |-> name, attrs |-> attrs,
     status |-> IF err # NoErr THEN "Error" ELSE "Unset",
     recorded |-> err, ended |-> TRUE]

\* one call of r.next / p.next
NextCall(op, a) == << [op |-> op, args |-> a] >>

TracingRepositoryCreate(db, t, fails) ==
    LET a == [NoPortArgs EXCEPT !.tenant = t]
        r == RepoCreate(db, t, fails)
    IN [db |-> r.db, out |-> PortResult(ZeroTenant, << >>, r.err),
        next |-> NextCall("Create", a),
        span |-> Span("TenantRepository.Create",
                      << <<"tenant.id", t.ID>>, <<"tenant.slug", t.Slug>> >>, r.err)]

\* variant: the decorator wraps the error of the inner repository
TracingRepositoryGetByIDWrapsError(db, id, fails) ==
    LET a == [NoPortArgs EXCEPT !.id = id]
        r == RepoGetByID(db, id, fails)
        e == IF r.err # NoErr THEN Errorf("TenantRepository.GetByID", r.err) ELSE NoErr
    IN [db |-> db, out |-> PortResult(r.tenant, << >>, e),
        next |-> NextCall("GetByID", a),
        span |-> Span("TenantRepository.GetByID", << <<"tenant.id", id>> >>, r.err)]

TracingRepositoryGetByID(db, id, fails) ==
    LET a == [NoPortArgs EXCEPT !.id = id]
        r == RepoGetByID(db, id, fails)
    IN [db |-> db, out |-> PortResult(r.tenant, << >>, r.err),
        next |-> NextCall("GetByID", a),
        span |-> Span("TenantRepository.GetByID", << <<"tenant.id", id>> >>, r.err)]

TracingRepositoryGetBySlug(db, slug, fails) ==
    LET a == [NoPortArgs EXCEPT !.slug = slug]
        r == RepoGetBySlug(db, slug, fails)
    IN [db |-> db, out |-> PortResult(r.tenant, << >>, r.err),
        next |-> NextCall("GetBySlug", a),
        span |-> Span("TenantRepository.GetBySlug", << <<"tenant.slug", slug>> >>, r.err)]

\* the results List may give: one per result of the wrapped query
TracingRepositoryList(db, filter, fails) ==
    LET a == [NoPortArgs EXCEPT !.filter = filter]
        base == << <<"filter.limit", filter.Limit>>, <<"filter.offset", filter.Offset>> >>
        withStatus == IF filter.Status # << >>
                      THEN Append(base, <<"filter.status", filter.Status[1]>>)
                      ELSE base
    IN {[db |-> db, out |-> PortResult(ZeroTenant, r.tenants, r.err),
         next |-> NextCall("List", a),
         span |-> Span("TenantRepository.List",
                       IF r.err = NoErr
                       THEN Append(withStatus, <<"result.count", Len(r.tenants)>>)
                       ELSE withStatus,
                       r.err)] : r \in RepoList(db, filter, fails)}

TracingRepositoryUpdate(db, tn, t, fails) ==
    LET a == [NoPortArgs EXCEPT !.tenant = tn]
        r == RepoUpdate(db, tn, t, fails)
    IN [db |-> r.db, out |-> PortResult(ZeroTenant, << >>, r.err),
        next |-> NextCall("Update", a),
        span |-> Span("TenantRepository.Update",
                      << <<"tenant.id", tn.ID>>, <<"tenant.status", tn.Status>> >>, r.err)]

\* TracingPublisher.Publish around the River publisher, as main wires them
TracingPublisherPublish(q, event, tn, fails) ==
    LET a == [NoPortArgs EXCEPT !.event = event, !.tenant = tn]
        r == RiverPublish(q, event, tn, fails)
    IN [jobs |-> r.jobs, out |-> PortResult(ZeroTenant, << >>, r.err),
        next |-> NextCall("Publish", a),
        span |-> Span("EventPublisher.Publish",
                      << <<"event.type", event>>, <<"tenant.id", tn.ID>>,
                         <<"tenant.slug", tn.Slug>> >>, r.err)]

---------------------------------------------------------------------------
(* A client of the decorated ports: what the service, or a test, calls.     *)

\* no call yet
NoTraced ==
    [op |-> "", args |-> NoPortArgs, out |-> PortResult(ZeroTenant, << >>, NoErr),
     next |-> << >>, span |-> Span("", << >>, NoErr), calls |-> 0]

\* the tenants the client passes to Create, Update and Publish
PortTenants ==
    {[NewTenant(i, in.name, in.slug, in.plan, 0) EXCEPT !.Status = s] :
        i \in Ids, in \in CreateInputs, s \in {StatusCreating, StatusActive}}

\* the call op(a) went through its decorator with outcome r
Traced(op, a, r) ==
    /\ traced.calls < MaxPortCalls
    /\ traced' = [op |-> op, args |-> a, out |-> r.out, next |-> r.next,
                  span |-> r.span, calls |-> traced.calls + 1]

TCreate(t, fails) ==
    LET r == TracingRepositoryCreate(tenants, t, fails)
    IN /\ Traced("Create", [NoPortArgs EXCEPT !.tenant = t], r)
       /\ tenants' = r.db
       /\ failed' = fails
       /\ UNCHANGED <<jobs, now>>

TGetByID(id, fails) ==
    LET r == TracingRepositoryGetByID(tenants, id, fails)
    IN /\ Traced("GetByID", [NoPortArgs EXCEPT !.id = id], r)
       /\ failed' = fails
       /\ UNCHANGED <<tenants, jobs, now>>

TGetBySlug(slug, fails) ==
    LET r == TracingRepositoryGetBySlug(tenants, slug, fails)
    IN /\ Traced("GetBySlug", [NoPortArgs EXCEPT !.slug = slug], r)
       /\ failed' = fails
       /\ UNCHANGED <<tenants, jobs, now>>

TList(filter, fails) ==
    /\ \E r \in TracingRepositoryList(tenants, filter, fails) :
          Traced("List", [NoPortArgs EXCEPT !.filter = filter], r)
    /\ failed' = fails
    /\ UNCHANGED <<tenants, jobs, now>>

TUpdate(tn, fails) ==
    \E reading \in ClockReadings :
       LET r == TracingRepositoryUpdate(tenants, tn, reading, fails)
       IN /\ Traced("Update", [NoPortArgs EXCEPT !.tenant = tn], r)
          /\ tenants' = r.db
          /\ now' = reading
          /\ failed' = fails
          /\ UNCHANGED jobs

TPublish(event, tn, fails) ==
    LET r == TracingPublisherPublish(jobs, event, tn, fails)
    IN /\ Traced("Publish", [NoPortArgs EXCEPT !.event = event, !.tenant = tn], r)
       /\ jobs' = r.jobs
       /\ failed' = fails
       /\ UNCHANGED <<tenants, now>>

\* what a port call leaves alone
PortFrame ==
    UNCHANGED <<published, ncalls, pc, args, tenant, ret, listed, vvars, fvars, main>>

NextPorts ==
    \/ \E t \in PortTenants, fails \in BOOLEAN : TCreate(t, fails) /\ PortFrame
    \/ \E id \in Ids, fails \in BOOLEAN : TGetByID(id, fails) /\ PortFrame
    \/ \E in \in CreateInputs, fails \in BOOLEAN : TGetBySlug(in.slug, fails) /\ PortFrame
    \/ \E filter \in ListFilters, fails \in BOOLEAN : TList(filter, fails) /\ PortFrame
    \/ \E t \in PortTenants, fails \in BOOLEAN : TUpdate(t, fails) /\ PortFrame
    \/ \E e \in Events, t \in PortTenants, fails \in BOOLEAN :
          TPublish(e, t, fails) /\ PortFrame

---------------------------------------------------------------------------
(* cmd/tenantiq: run(), its server goroutine and the signals the process    *)
(* is sent.                                                                 *)

\* the signals the environment sends; run registers the first two
Signals == {"interrupt", "SIGTERM", "SIGHUP"}
Notified == {"interrupt", "SIGTERM"}

\* run() entered: nothing set up, no goroutine, done not yet made
RunEntry ==
    [pc |-> "otel", log |-> << >>, done |-> << >>, notified |-> FALSE,
     gpc |-> "none", srv |-> "new", served |-> 0, logged |-> {},
     ret |-> NoErr, received |-> "", sent |-> 0]

\* the deferred calls of run: db.Close() once OpenDB has succeeded
Deferred(log) ==
    IF \E k \in 1 .. Len(log) : log[k] = "OpenDB" THEN Append(log, "db.Close") ELSE log

\* one start-up step of run: on an error run returns it wrapped, else goes on
Startup(at, to, call, msg, fails) ==
    /\ main.pc = at
    /\ main' = IF fails
               THEN [main EXCEPT !.pc = "returned",
                                 !.ret = Errorf(msg, ErrorsNew(call)),
                                 !.log = Deferred(@)]
               ELSE [main EXCEPT !.pc = to, !.log = Append(@, call)]

\* lines 39-43
OtelSetup(fails) == Startup("otel", "opendb", "otel.Setup", "otel", fails)

\* lines 46-50
OpenDB(fails) == Startup("opendb", "repo", "OpenDB", "database", fails)

\* lines 52-55
NewFromDB(fails) == Startup("repo", "river", "NewFromDB", "repository", fails)

\* lines 58-61
RiverSetup(fails) == Startup("river", "riverstart", "river.Setup", "river", fails)

\* lines 62-64
RiverStart(fails) == Startup("riverstart", "wire", "river.Start", "river start", fails)

\* lines 67-88: decorators, validator, service, router, handler, server value
Wire == Startup("wire", "notify", "wire", "", FALSE)

\* lines 91-92: done := make(chan os.Signal, 1); signal.Notify(done, ...)
SignalNotify ==
    /\ main.pc = "notify"
    /\ main' = [main EXCEPT !.pc = "spawn", !.notified = TRUE,
                            !.log = Append(@, "signal.Notify")]

\* line 94: go func() { ... }()
Spawn ==
    /\ main.pc = "spawn"
    /\ main' = [main EXCEPT !.pc = "wait", !.gpc = "spawned",
                            !.log = Append(@, "go")]

\* line 102: <-done
Wait ==
    /\ main.pc = "wait"
    /\ main.done # << >>
    /\ main' = [main EXCEPT !.pc = "http", !.received = Head(main.done),
                            !.done = Tail(@)]

\* one shutdown step: an error is logged and run goes on
ShutdownStep(at, to, call, msg, fails) ==
    /\ main.pc = at
    /\ main' = [main EXCEPT !.pc = to, !.log = Append(@, call),
                            !.logged = IF fails THEN @ \cup {msg} ELSE @,
                            !.srv = IF call = "srv.Shutdown" THEN "closed" ELSE @]

\* variant: run returns the error of srv.Shutdown
SrvShutdownReturnsError(fails) ==
    /\ main.pc = "http"
    /\ main' = IF fails
               THEN [main EXCEPT !.pc = "returned", !.srv = "closed",
                                 !.ret = Errorf("http shutdown", ErrorsNew("srv.Shutdown")),
                                 !.log = Deferred(Append(@, "srv.Shutdown"))]
               ELSE [main EXCEPT !.pc = "riverstop", !.srv = "closed",
                                 !.log = Append(@, "srv.Shutdown")]

\* lines 105-111
SrvShutdown(fails) ==
    ShutdownStep("http", "riverstop", "srv.Shutdown", "http shutdown error", fails)

\* lines 113-115
RiverStop(fails) ==
    ShutdownStep("riverstop", "otelstop", "riverClient.Stop", "river shutdown error", fails)

\* lines 117-119
ProvidersShutdown(fails) ==
    ShutdownStep("otelstop", "return", "providers.Shutdown", "otel shutdown error", fails)

\* lines 121-122 and the deferred calls
ReturnNil ==
    /\ main.pc = "return"
    /\ main' = [main EXCEPT !.pc = "returned", !.ret = NoErr, !.log = Deferred(@)]

\* lines 95-97, the goroutine: srv.ListenAndServe() binds the port and
\* serves; it returns ErrServerClosed at once when Shutdown was called
\* before it, and another error when it cannot listen
ListenAndServe(fails) ==
    /\ main.gpc = "spawned"
    /\ main.pc \notin {"returned", "killed"}
    /\ main' = IF main.srv = "closed"
               THEN [main EXCEPT !.gpc = "returned"]
               ELSE IF fails
               THEN [main EXCEPT !.gpc = "returned", !.srv = "failed",
                                 !.logged = @ \cup {"server error"}]
               ELSE [main EXCEPT !.gpc = "serving", !.srv = "serving",
                                 !.log = Append(@, "serving")]

\* the server handles one request
Serve ==
    /\ main.gpc = "serving"
    /\ main.srv = "serving"
    /\ main.pc \notin {"returned", "killed"}
    /\ main.served < MaxRequests
    /\ main' = [main EXCEPT !.served = @ + 1]

\* lines 97-99: ListenAndServe returns ErrServerClosed after Shutdown
ServerClosed ==
    /\ main.gpc = "serving"
    /\ main.srv = "closed"
    /\ main.pc \notin {"returned", "killed"}
    /\ main' = [main EXCEPT !.gpc = "returned"]

\* the process is sent a signal: a registered one goes to done when the
\* channel has room and is dropped otherwise; any other, and any signal
\* before signal.Notify, ends the process
Signal(s) ==
    /\ main.pc \notin {"returned", "killed"}
    /\ main.sent < MaxSignals
    /\ main' = IF main.notified /\ s \in Notified
               THEN [main EXCEPT !.sent = @ + 1,
                                 !.done = IF Len(@) < 1 THEN Append(@, s) ELSE @]
               ELSE [main EXCEPT !.sent = @ + 1, !.pc = "killed"]

\* what run and its environment leave alone
MainFrame == UNCHANGED <<svars, vvars, fvars, jobs, traced>>

NextMain ==
    \/ \E fails \in BOOLEAN : OtelSetup(fails) /\ MainFrame
    \/ \E fails \in BOOLEAN : OpenDB(fails) /\ MainFrame
    \/ \E fails \in BOOLEAN : NewFromDB(fails) /\ MainFrame
    \/ \E fails \in BOOLEAN : RiverSetup(fails) /\ MainFrame
    \/ \E fails \in BOOLEAN : RiverStart(fails) /\ MainFrame
    \/ Wire /\ MainFrame
    \/ SignalNotify /\ MainFrame
    \/ Spawn /\ MainFrame
    \/ Wait /\ MainFrame
    \/ \E fails \in BOOLEAN : SrvShutdown(fails) /\ MainFrame
    \/ \E fails \in BOOLEAN : RiverStop(fails) /\ MainFrame
    \/ \E fails \in BOOLEAN : ProvidersShutdown(fails) /\ MainFrame
    \/ ReturnNil /\ MainFrame
    \/ \E fails \in BOOLEAN : ListenAndServe(fails) /\ MainFrame
    \/ Serve /\ MainFrame
    \/ ServerClosed /\ MainFrame
    \/ \E s \in Signals : Signal(s) /\ MainFrame

---------------------------------------------------------------------------
(* Specifications *)

InitService ==
    /\ tenants = << >>
    /\ published = << >>
    /\ now = 0
    /\ ncalls = 0
    /\ pc = [p \in Procs |-> "idle"]
    /\ args = [p \in Procs |-> NoArgs]
    /\ tenant = [p \in Procs |-> ZeroTenant]
    /\ ret = [p \in Procs |-> NoRet]
    /\ failed = FALSE
    /\ listed = NoList

InitValidator ==
    /\ vpc = "idle"
    /\ vin = [current |-> "", event |-> ""]
    /\ machine = NoMachine
    /\ verr = NoErr
    /\ vout = [status |-> "", err |-> NoErr]
    /\ vcalls = 0

InitFault ==
    /\ porterr = FALSE
    /\ cancelled = FALSE

\* the program as built from the source: domain.Transitions as written
NoLookup == [current |-> "", event |-> "", applied |-> [status |-> "", err |-> NoErr],
             found |-> [dst |-> "", ok |-> FALSE]]

ConfOf(tbl) ==
    [pc |-> "init", table |-> tbl, events |-> << >>, err |-> NoErr, lookup |-> NoLookup]

InitConf == conf = ConfOf(Transitions)

\* nothing enqueued, no call through a decorator, run() entered
InitAdapters == jobs = << >> /\ traced = NoTraced /\ main = RunEntry

Init == InitService /\ InitValidator /\ InitFault /\ InitConf /\ InitAdapters

Next ==
    \/ \E p \in Procs, in \in CreateInputs : ncalls < MaxCalls /\ CallCreate(p, in) /\ UNCHANGED <<vvars, listed, fvars, avars>>
    \/ \E p \in Procs : CreateCheck(p) /\ UNCHANGED <<vvars, listed, fvars, avars>>
    \/ \E p \in Procs : CreatePersist(p) /\ UNCHANGED <<vvars, listed, fvars, avars>>
    \/ \E p \in Procs : CreatePublish(p) /\ UNCHANGED <<vvars, listed, fvars, avars>>
    \/ \E p \in Procs, id \in Ids, e \in Events : ncalls < MaxCalls /\ CallTransition(p, id, e) /\ UNCHANGED <<vvars, listed, fvars, avars>>
    \/ \E p \in Procs : TransitionLoad(p) /\ UNCHANGED <<vvars, listed, fvars, avars>>
    \/ \E p \in Procs : TransitionUpdate(p) /\ UNCHANGED <<vvars, listed, fvars, avars>>
    \/ \E p \in Procs : TransitionPublish(p) /\ UNCHANGED <<vvars, listed, fvars, avars>>

Spec == Init /\ [][Next]_vars

\* one caller at a time and ports that do not fail: the sequential
\* executions of Create, Transition and List; the caller drops the result
\* of a List when it starts its next call
Caller == "p1"

NoPortFailure == ~failed' /\ ~ErrorsIs(ret'[Caller].err, ErrorsNew("rand"))

NextSeq ==
    \/ \E in \in CreateInputs :
          ncalls < MaxSeqCalls /\ CallCreate(Caller, in) /\ listed' = NoList /\ UNCHANGED <<vvars, fvars, avars>>
    \/ CreateCheck(Caller) /\ NoPortFailure /\ UNCHANGED <<vvars, listed, fvars, avars>>
    \/ CreatePersist(Caller) /\ NoPortFailure /\ UNCHANGED <<vvars, listed, fvars, avars>>
    \/ CreatePublish(Caller) /\ NoPortFailure /\ UNCHANGED <<vvars, listed, fvars, avars>>
    \/ \E id \in Ids, e \in Events :
          ncalls < MaxSeqCalls /\ CallTransition(Caller, id, e) /\ listed' = NoList /\ UNCHANGED <<vvars, fvars, avars>>
    \/ TransitionLoad(Caller) /\ NoPortFailure /\ UNCHANGED <<vvars, listed, fvars, avars>>
    \/ TransitionUpdate(Caller) /\ NoPortFailure /\ UNCHANGED <<vvars, listed, fvars, avars>>
    \/ TransitionPublish(Caller) /\ NoPortFailure /\ UNCHANGED <<vvars, listed, fvars, avars>>
    \/ \E filter \in ListFilters :
          ncalls < MaxSeqCalls /\ List(Caller, filter) /\ ~failed' /\ UNCHANGED <<vvars, fvars, avars>>
    \/ \E id \in Ids :
          ncalls < MaxSeqCalls /\ GetByID(Caller, id) /\ ~failed' /\ listed' = NoList
             /\ UNCHANGED <<vvars, fvars, avars>>

SpecSeq == Init /\ [][NextSeq]_vars

\* the caller's context is cancelled while its call runs (ctx.Done())
Cancel ==
    /\ pc[Caller] \notin {"idle", "done"}
    /\ ~cancelled
    /\ cancelled' = TRUE
    /\ UNCHANGED <<svars, vvars, porterr, conf, avars>>

\* another writer on the database file removes a row: the service itself
\* has no operation that does
RowRemovedElsewhere ==
    /\ \E id \in DOMAIN tenants :
          tenants' = [i \in DOMAIN tenants \ {id} |-> tenants[i]]
    /\ UNCHANGED <<published, now, ncalls, pc, args, tenant, ret, failed, listed>>
    /\ UNCHANGED <<vvars, fvars, avars>>

\* a call starts with a live context
FreshContext == porterr' = FALSE /\ cancelled' = FALSE /\ UNCHANGED <<vvars, listed, conf, avars>>

\* a port called with a cancelled context fails with the context's error;
\* generateID takes no context
CancelledFails == cancelled => failed' \/ ErrorsIs(ret'[Caller].err, ErrorsNew("rand"))

Faulty ==
    /\ CancelledFails
    /\ porterr' = (porterr \/ failed')
    /\ UNCHANGED <<cancelled, vvars, listed, conf, avars>>

\* one caller, ports that may fail, a context that may be cancelled and a
\* database that another writer may remove rows from
NextFault ==
    \/ \E in \in CreateInputs :
          ncalls < MaxFaultCalls /\ CallCreate(Caller, in) /\ FreshContext
    \/ CreateCheck(Caller) /\ Faulty
    \/ CreatePersist(Caller) /\ Faulty
    \/ CreatePublish(Caller) /\ Faulty
    \/ \E id \in Ids, e \in Events :
          ncalls < MaxFaultCalls /\ CallTransition(Caller, id, e) /\ FreshContext
    \/ TransitionLoad(Caller) /\ Faulty
    \/ TransitionUpdate(Caller) /\ Faulty
    \/ TransitionPublish(Caller) /\ Faulty
    \/ Cancel
    \/ RowRemovedElsewhere

SpecFault == Init /\ [][NextFault]_vars

\* s with row r inserted before position i
InsertAt(s, i, r) == SubSeq(s, 1, i - 1) \o <<r>> \o SubSeq(s, i, Len(s))

\* the tables a build may be given: domain.Transitions as written, or with
\* one more row anywhere in the literal
Tables ==
    {Transitions} \cup
    {InsertAt(Transitions, i, r) :
        i \in 1 .. Len(Transitions) + 1, r \in [Event : Events, Src : Statuses, Dst : Statuses]}

\* package initialisation: var events = buildEvents()
ConfBuildEvents ==
    /\ conf.pc = "init"
    /\ conf' = [conf EXCEPT !.pc = "built", !.events = buildEventsOf(conf.table)]
    /\ UNCHANGED <<svars, vvars, porterr, cancelled, avars>>

\* the validator is constructed: fsm.New()
ConfNew ==
    /\ conf.pc = "built"
    /\ conf' = [conf EXCEPT !.pc = "constructed", !.err = New.err]
    /\ UNCHANGED <<svars, vvars, porterr, cancelled, avars>>

\* one lookup on the constructed program: Validator.Apply on its descriptors
\* and findTransition on its table
ConfLookup(current, event) ==
    /\ conf.pc = "constructed"
    /\ conf.err = NoErr
    /\ LET r == FSMEvent(NewFSM(current, conf.events), event)
       IN conf' = [conf EXCEPT
                     !.pc = "looked",
                     !.lookup = [current |-> current, event |-> event,
                                 applied |-> ApplyResult(current, event, r.f, r.err),
                                 found |-> scanTransitionsOf(conf.table, 1, current, event)]]
    /\ UNCHANGED <<svars, vvars, porterr, cancelled, avars>>

NextT ==
    \/ ConfBuildEvents
    \/ ConfNew
    \/ \E s \in Statuses, e \in Events : ConfLookup(s, e)

InitT ==
    /\ InitService /\ InitValidator /\ InitFault /\ InitAdapters
    /\ \E tbl \in Tables : conf = ConfOf(tbl)

\* the construction of the validator and one lookup, for every table of Tables
SpecT == InitT /\ [][NextT]_vars

\* the tenant Create("Acme", "acme", "free") constructs at clock reading 0
\* under id 1, and what Transition(1, provision_complete) loads and returns
AcmeCreated == NewTenant(1, "Acme", "acme", "free", 0)

AcmeActive ==
    [RepoGetByID(RepoCreate(<< >>, AcmeCreated, FALSE).db, 1, FALSE).tenant
        EXCEPT !.Status = StatusActive]

\* the state after p1 has run that Create and that Transition to their end
InitRace ==
    /\ tenants = RepoUpdate(RepoCreate(<< >>, AcmeCreated, FALSE).db, AcmeActive, 0, FALSE).db
    /\ published = << [event |-> EventProvisionComplete, tenant |-> AcmeCreated],
                      [event |-> EventProvisionComplete, tenant |-> AcmeActive] >>
    /\ now = 0
    /\ ncalls = 2
    /\ pc = [p \in Procs |-> IF p = "p1" THEN "done" ELSE "idle"]
    /\ args = [p \in Procs |-> NoArgs]
    /\ tenant = [p \in Procs |-> ZeroTenant]
    /\ ret = [p \in Procs |-> IF p = "p1" THEN [tenant |-> AcmeActive, err |-> NoErr]
                                ELSE NoRet]
    /\ failed = FALSE
    /\ listed = NoList
    /\ InitValidator /\ InitFault /\ InitConf /\ InitAdapters

\* concurrent Transition calls on an active tenant, with ports that work
NextRace ==
    \/ \E p \in Procs, id \in Ids, e \in Events :
          ncalls < MaxRaceCalls /\ CallTransition(p, id, e) /\ UNCHANGED <<vvars, listed, fvars, avars>>
    \/ \E p \in Procs : TransitionLoad(p) /\ ~failed' /\ UNCHANGED <<vvars, listed, fvars, avars>>
    \/ \E p \in Procs : TransitionUpdate(p) /\ ~failed' /\ UNCHANGED <<vvars, listed, fvars, avars>>
    \/ \E p \in Procs : TransitionPublish(p) /\ ~failed' /\ UNCHANGED <<vvars, listed, fvars, avars>>

SpecRace == InitRace /\ [][NextRace]_vars

\* the validator alone, called with every status and event
NextV ==
    \/ \E s \in Statuses, e \in Events : VCall(s, e) /\ UNCHANGED <<svars, fvars, avars>>
    \/ VNewFSM /\ UNCHANGED <<svars, fvars, avars>>
    \/ VEvent /\ UNCHANGED <<svars, fvars, avars>>
    \/ VReturn /\ UNCHANGED <<svars, fvars, avars>>

SpecV == Init /\ [][NextV]_vars

---------------------------------------------------------------------------
(* Properties *)

\* the transition table read as a relation
HasRow(event, src, dst) ==
    \E i \in 1 .. Len(Transitions) :
        Transitions[i] = [Event |-> event, Src |-> src, Dst |-> dst]

HasRowFrom(event, src) == \E dst \in Statuses : HasRow(event, src, dst)

\* caller p takes a step
Moved(p) == pc'[p] # pc[p]

SlugStored(db, slug) == \E i \in DOMAIN db : db[i].slug = slug

\* C1: for every row (event, src, dst) of the transition table, a finished
\* Apply(src, event) has returned dst and a nil error.
C1_ApplyFollowsTable ==
    vpc = "done" =>
        \A i \in 1 .. Len(Transitions) :
            (vin.current = Transitions[i].Src /\ vin.event = Transitions[i].Event)
                => vout = [status |-> Transitions[i].Dst, err |-> NoErr]

\* Apply(suspended, delete) has returned deleting: the row that shares its
\* event descriptor with (delete, active)
C1_Witness ==
    /\ vpc = "done"
    /\ vin = [current |-> StatusSuspended, event |-> EventDelete]
    /\ vout = [status |-> StatusDeleting, err |-> NoErr]

\* C2: for every (status, event) with no row in the table, a finished
\* Apply(status, event) has returned no status and an error that is a
\* TransitionError whose Event and Current are the given event and status.
C2_ApplyRejectsOthers ==
    (vpc = "done" /\ ~HasRowFrom(vin.event, vin.current)) =>
        /\ vout.status = ""
        /\ ErrorsAs(vout.err, "TransitionError")
        /\ AsTarget(vout.err, "TransitionError").a = vin.event
        /\ AsTarget(vout.err, "TransitionError").b = vin.current

\* Apply(creating, suspend) was rejected: suspend is valid from active only
C2_Witness ==
    /\ vpc = "done"
    /\ vin = [current |-> StatusCreating, event |-> EventSuspend]
    /\ vout.err = TransitionError(EventSuspend, StatusCreating)

\* C3: a Transition whose event has no row from the status it loaded ends in
\* the step that loaded it: it returns the zero tenant and the
\* TransitionError of that event and status (or the error of a failing
\* lookup), never reaches repo.Update, and leaves the table and the published
\* events as they were.
C3_RejectedTransitionMutatesNothing ==
    [][\A p \in Procs :
          ( /\ pc[p] = "tr_load"
            /\ Moved(p)
            /\ args[p].id \in DOMAIN tenants
            /\ ~HasRowFrom(args[p].event, tenants[args[p].id].status) )
          => /\ pc'[p] = "done"
             /\ ret'[p].tenant = ZeroTenant
             /\ IF failed'
                THEN ret'[p].err = Errorf("scanning tenant", DriverError)
                ELSE ret'[p].err =
                        TransitionError(args[p].event, tenants[args[p].id].status)
             /\ tenants' = tenants
             /\ published' = published]_vars

\* a caller got the TransitionError of suspend on a tenant that is still in
\* creating, and nothing was published
C3_Witness ==
    \E p \in Procs, i \in DOMAIN tenants :
        /\ pc[p] = "done"
        /\ ret[p].err = TransitionError(EventSuspend, StatusCreating)
        /\ tenants[i].status = StatusCreating
        /\ published = << >>

\* callers p and q are in Transition on the same tenant with different
\* events that are both legal from one status; p's repo.Update has been
\* applied and is what the table holds, q's repo.Update is still to come
LostTo(q, p) ==
    /\ p # q
    /\ pc[p] = "tr_publish"
    /\ pc[q] = "tr_update"
    /\ tenant[p].ID = tenant[q].ID
    /\ tenant[q].ID \in DOMAIN tenants
    /\ args[p].event # args[q].event
    /\ \E s \in Statuses : /\ HasRow(args[p].event, s, tenant[p].Status)
                           /\ HasRow(args[q].event, s, tenant[q].Status)
    /\ tenants[tenant[p].ID].status = tenant[p].Status
    /\ ~HasRowFrom(args[q].event, tenants[tenant[q].ID].status)

\* C4: of two concurrent Transitions of one tenant with different events
\* that read the same status, only the first repo.Update succeeds: the
\* second call ends with an error and leaves the first one's row in place.
C4_LoserDoesNotOverwrite ==
    [][\A p, q \in Procs :
          (LostTo(q, p) /\ Moved(q))
          => /\ pc'[q] = "done"
             /\ ret'[q].err # NoErr
             /\ tenants' = tenants]_vars

\* the successful Create of p: what it returned
CreateOk(p) ==
    /\ pc[p] = "done"
    /\ ret[p].err = NoErr
    /\ ret[p].tenant.Status = StatusCreating

SlugCount(slug) == Cardinality({i \in DOMAIN tenants : tenants[i].slug = slug})

\* C5: no two stored tenants share a slug; and once a Create with some slug
\* has succeeded, or has been refused by the pre-check, exactly one stored
\* tenant has that slug.
C5_SlugUnique ==
    /\ \A i, j \in DOMAIN tenants : tenants[i].slug = tenants[j].slug => i = j
    /\ \A p \in Procs :
          /\ CreateOk(p) => SlugCount(ret[p].tenant.Slug) = 1
          /\ \A in \in CreateInputs :
                (pc[p] = "done" /\ ret[p].err = SlugConflictError(in.slug))
                    => SlugCount(in.slug) = 1

\* two Creates with the slug "acme" both got past the pre-check: one
\* succeeded, the other was rejected by the table, and one row has the slug
C5_Witness ==
    \E p, q \in Procs :
        /\ CreateOk(p)
        /\ ret[p].tenant.Slug = "acme"
        /\ pc[q] = "done"
        /\ ret[q].err = Errorf("creating tenant", SlugConflictError("acme"))
        /\ SlugCount("acme") = 1

\* C6: a Create that got past the pre-check and whose insert meets a stored
\* tenant with its slug ends with an error that errors.As recognises as a
\* SlugConflictError carrying that slug, and that is no driver error; it
\* stores nothing and publishes nothing.
C6_LostRaceIsSlugConflict ==
    [][\A p \in Procs :
          ( /\ pc[p] = "create_persist"
            /\ Moved(p)
            /\ SlugStored(tenants, args[p].slug)
            /\ ~failed'
            /\ ret'[p].err # Errorf("generating tenant id", ErrorsNew("rand")) )
          => /\ pc'[p] = "done"
             /\ ret'[p].tenant = ZeroTenant
             /\ ErrorsAs(ret'[p].err, "SlugConflictError")
             /\ AsTarget(ret'[p].err, "SlugConflictError").a = args[p].slug
             /\ ~ErrorsIs(ret'[p].err, DriverError)
             /\ ~ErrorsAs(ret'[p].err, "error")
             /\ tenants' = tenants
             /\ published' = published]_vars

\* a Create lost the race for "acme": its insert was rejected while the
\* winner's row is stored, and only the winner's event was published
C6_Witness ==
    \E p, q \in Procs :
        /\ p # q
        /\ CreateOk(p)
        /\ ret[p].tenant.Slug = "acme"
        /\ pc[q] = "done"
        /\ ret[q].err = Errorf("creating tenant", SlugConflictError("acme"))
        /\ Len(published) = 1

\* C7: when the pre-check of Create finds a stored tenant with the slug,
\* Create ends in that step with SlugConflictError{slug} and the zero
\* tenant: repo.Create is never reached, the table and the published events
\* are unchanged.
C7_PreCheckConflict ==
    [][\A p \in Procs :
          ( /\ pc[p] = "create_check"
            /\ Moved(p)
            /\ SlugStored(tenants, args[p].slug)
            /\ ~failed' )
          => /\ pc'[p] = "done"
             /\ ret'[p] = [tenant |-> ZeroTenant,
                           err |-> SlugConflictError(args[p].slug)]
             /\ tenants' = tenants
             /\ published' = published]_vars

\* a Create of "acme" was refused by the pre-check
C7_Witness ==
    \E p \in Procs :
        /\ pc[p] = "done"
        /\ ret[p].err = SlugConflictError("acme")
        /\ SlugCount("acme") = 1

\* the step in which the Create of p inserts its row
CreateInserted(p) == pc[p] = "create_persist" /\ pc'[p] = "create_publish"

\* the step in which the Create of p returns its tenant
CreateReturnedOk(p) ==
    pc[p] = "create_publish" /\ pc'[p] = "done" /\ ret'[p].err = NoErr

\* the insert of p adds exactly one row, under an id that was not stored,
\* built from the arguments, in creating, with equal timestamps
InsertsOneNewRow(p) ==
    LET t == tenant'[p]
    IN /\ t.ID \notin DOMAIN tenants
       /\ DOMAIN tenants' = DOMAIN tenants \cup {t.ID}
       /\ \A i \in DOMAIN tenants : tenants'[i] = tenants[i]
       /\ tenants'[t.ID].name = args[p].name
       /\ tenants'[t.ID].slug = args[p].slug
       /\ tenants'[t.ID].plan = args[p].plan
       /\ tenants'[t.ID].status = StatusCreating
       /\ tenants'[t.ID].created_at = tenants'[t.ID].updated_at
       /\ t.Name = args[p].name /\ t.Slug = args[p].slug /\ t.Plan = args[p].plan
       /\ t.Status = StatusCreating
       /\ t.CreatedAt = t.UpdatedAt

\* a tenant with its timestamps cut to whole seconds, as timeFormat does
Truncated(t) ==
    [t EXCEPT !.CreatedAt = Parse(Format(t.CreatedAt)),
              !.UpdatedAt = Parse(Format(t.UpdatedAt))]

\* C8 as stated: a successful Create stores exactly one new record and the
\* record it returns is that stored record.
C8_ReturnsStoredRecord ==
    [][\A p \in Procs :
          /\ CreateInserted(p) =>
                /\ InsertsOneNewRow(p)
                /\ scanRow(tenant'[p].ID, tenants'[tenant'[p].ID]) = tenant'[p]
          /\ CreateReturnedOk(p) =>
                (ret'[p].tenant = tenant[p] /\ tenants' = tenants)]_vars

\* C8 amended: a successful Create stores exactly one new record (new id,
\* given name, slug and plan, status creating, created_at = updated_at) and
\* returns that record, except that the stored timestamps are the returned
\* ones cut to whole seconds.
C8_ReturnsStoredRecordToTheSecond ==
    [][\A p \in Procs :
          /\ CreateInserted(p) =>
                /\ InsertsOneNewRow(p)
                /\ scanRow(tenant'[p].ID, tenants'[tenant'[p].ID])
                      = Truncated(tenant'[p])
          /\ CreateReturnedOk(p) =>
                (ret'[p].tenant = tenant[p] /\ tenants' = tenants)]_vars

\* a Create returned a tenant read off the clock within a second: the stored
\* row, in creating with equal timestamps, reads back with another time
C8_Witness ==
    \E p \in Procs :
        /\ CreateOk(p)
        /\ ret[p].tenant.ID \in DOMAIN tenants
        /\ LET row == tenants[ret[p].tenant.ID]
           IN /\ row.status = StatusCreating
              /\ row.created_at = row.updated_at
              /\ Parse(row.created_at) # ret[p].tenant.CreatedAt
              /\ scanRow(ret[p].tenant.ID, row) = Truncated(ret[p].tenant)

\* C9: the Create of p publishes nothing before its insert has succeeded;
\* when it returns its tenant it has appended exactly one event, tagged
\* provision_complete, whose snapshot is the returned tenant in creating,
\* stored under its id at that moment; a failed publish appends nothing.
C9_CreatePublishesOnce ==
    [][\A p \in Procs :
          /\ (pc[p] \in {"idle", "done", "create_check", "create_persist"} /\ Moved(p)
                /\ pc'[p] \in {"create_check", "create_persist", "create_publish", "done"}
                /\ args'[p].op # "Transition")
                => published' = published
          /\ CreateReturnedOk(p) =>
                /\ published' = Append(published,
                                  [event |-> EventProvisionComplete,
                                   tenant |-> ret'[p].tenant])
                /\ ret'[p].tenant.Status = StatusCreating
                /\ ret'[p].tenant.ID \in DOMAIN tenants
                /\ tenants[ret'[p].tenant.ID].slug = ret'[p].tenant.Slug
          /\ (pc[p] = "create_publish" /\ Moved(p) /\ ~CreateReturnedOk(p))
                => published' = published]_vars

\* a Create succeeded and the one published event is its creation event
C9_Witness ==
    \E p \in Procs :
        /\ CreateOk(p)
        /\ published = << [event |-> EventProvisionComplete, tenant |-> ret[p].tenant] >>
        /\ ret[p].tenant.ID \in DOMAIN tenants

\* C10: the insert of a Create stores the tenant in creating under the
\* given slug; when the publisher then fails, Create returns an error and
\* the zero tenant and changes nothing in the table: the row is still
\* stored with the given slug and GetByID returns it.
C10_PublishFailureKeepsTenant ==
    [][\A p \in Procs :
          /\ CreateInserted(p) =>
                /\ tenants'[tenant'[p].ID].status = StatusCreating
                /\ tenants'[tenant'[p].ID].slug = args[p].slug
          /\ (pc[p] = "create_publish" /\ Moved(p) /\ failed') =>
                /\ pc'[p] = "done"
                /\ ret'[p].err # NoErr
                /\ ret'[p].tenant = ZeroTenant
                /\ tenants' = tenants
                /\ tenant[p].ID \in DOMAIN tenants'
                /\ tenants'[tenant[p].ID].slug = args[p].slug
                /\ RepoGetByID(tenants', tenant[p].ID, FALSE)
                      = [tenant |-> scanRow(tenant[p].ID, tenants[tenant[p].ID]),
                         err |-> NoErr]]_vars

\* a Create has just failed in the publisher and its tenant is stored in
\* creating
C10_Witness ==
    \E p \in Procs :
        /\ pc[p] = "done"
        /\ failed
        /\ ret[p].err = Errorf("publishing creation event", ErrorsNew("queue down"))
        /\ published = << >>
        /\ \E i \in DOMAIN tenants :
              /\ tenants[i].status = StatusCreating
              /\ RepoGetByID(tenants, i, FALSE).tenant.Status = StatusCreating

\* the step in which the repo.Update of p's Transition succeeds
TransitionUpdated(p) == pc[p] = "tr_update" /\ pc'[p] = "tr_publish"

\* C11: the successful repo.Update of a Transition stores the destination
\* status; when the publisher then fails, Transition returns the zero tenant
\* and an error wrapping the publisher's, and writes nothing to the table,
\* so what the update stored stays stored.
C11_TransitionPublishFailureKeepsStatus ==
    [][\A p \in Procs :
          /\ TransitionUpdated(p) =>
                /\ tenant'[p] = tenant[p]
                /\ tenants'[tenant[p].ID].status = tenant[p].Status
                /\ HasRowFrom(args[p].event, tenants[tenant[p].ID].status)
                      => HasRow(args[p].event, tenants[tenant[p].ID].status,
                                tenants'[tenant[p].ID].status)
          /\ (pc[p] = "tr_publish" /\ Moved(p) /\ failed') =>
                /\ pc'[p] = "done"
                /\ ret'[p] = [tenant |-> ZeroTenant,
                              err |-> Errorf("publishing event",
                                             ErrorsNew("queue down"))]
                /\ tenants' = tenants
                /\ published' = published]_vars

\* a Transition to active has just failed in the publisher: the row is
\* active and only the creation event was published
C11_Witness ==
    \E p \in Procs, i \in DOMAIN tenants :
        /\ pc[p] = "done"
        /\ failed
        /\ ret[p].err = Errorf("publishing event", ErrorsNew("queue down"))
        /\ tenants[i].status = StatusActive
        /\ Len(published) = 1
        /\ published[1].tenant.Status = StatusCreating

\* C12: an event is published by a Transition only in its last step, and
\* that step is reached only through the step in which the call's own
\* repo.Update succeeded and stored, for the tenant of the snapshot, the
\* status the snapshot carries; the snapshot does not change in between.
C12_UpdateBeforePublish ==
    [][\A p \in Procs :
          /\ (pc'[p] = "tr_publish" /\ Moved(p)) =>
                /\ pc[p] = "tr_update"
                /\ ~failed'
                /\ tenant[p].ID \in DOMAIN tenants
                /\ tenants'[tenant'[p].ID].status = tenant'[p].Status
          /\ (pc[p] = "tr_publish" /\ ~Moved(p)) =>
                (tenant'[p] = tenant[p] /\ args'[p] = args[p])
          /\ (pc[p] \in {"tr_load", "tr_update"} /\ Moved(p)) =>
                published' = published
          /\ (pc[p] = "tr_publish" /\ Moved(p) /\ ~failed') =>
                /\ published' = Append(published,
                                       [event |-> args[p].event, tenant |-> tenant[p]])
                /\ ret'[p] = [tenant |-> tenant[p], err |-> NoErr]]_vars

\* a Transition has published provision_complete with a snapshot in
\* active, the row being active
C12_Witness ==
    \E p \in Procs :
        /\ pc[p] = "done"
        /\ ret[p].err = NoErr
        /\ ret[p].tenant.Status = StatusActive
        /\ published[Len(published)] =
              [event |-> EventProvisionComplete, tenant |-> ret[p].tenant]
        /\ tenants[ret[p].tenant.ID].status = StatusActive

\* C13: when the lookup of Transition answers that no tenant has the id,
\* the call ends in that step with ErrTenantNotFound, whatever the event:
\* the table is not consulted, nothing is stored and nothing is published.
C13_TransitionNotFound ==
    [][\A p \in Procs :
          ( /\ pc[p] = "tr_load"
            /\ Moved(p)
            /\ args[p].id \notin DOMAIN tenants
            /\ ~failed' )
          => /\ pc'[p] = "done"
             /\ ret'[p] = [tenant |-> ZeroTenant, err |-> ErrTenantNotFound]
             /\ ErrorsIs(ret'[p].err, ErrTenantNotFound)
             /\ ~ErrorsAs(ret'[p].err, "TransitionError")
             /\ tenants' = tenants
             /\ published' = published]_vars

\* a Transition on an id that is not stored, next to a stored tenant, has
\* returned the not-found error
C13_Witness ==
    \E p \in Procs :
        /\ pc[p] = "done"
        /\ ~failed
        /\ ret[p] = [tenant |-> ZeroTenant, err |-> ErrTenantNotFound]
        /\ Cardinality(DOMAIN tenants) = 1

JustApplied(id, event) ==
    /\ Len(published) > 0
    /\ id \in DOMAIN tenants
    /\ LET last == published[Len(published)]
       IN /\ last.event = event
          /\ last.tenant.ID = id
          /\ \E src \in Statuses : HasRow(event, src, last.tenant.Status)
          /\ tenants[id].status = last.tenant.Status

\* no row (e, src, dst) of the table is followed by a row (e, dst, _)
NoRowFromOwnDestination ==
    \A i \in 1 .. Len(Transitions) :
        ~HasRowFrom(Transitions[i].Event, Transitions[i].Dst)

\* C15: no row of the table starts, for its own event, at its destination;
\* so when Transition(id, e) has succeeded and Transition(id, e) is called
\* again while the row still has the status the first call stored, the
\* second call ends at validation with TransitionError{e, that status} and
\* the table and the published events are unchanged.
C15_ReplayRejected ==
    [][/\ NoRowFromOwnDestination
       /\ \A p \in Procs :
             ( /\ pc[p] = "tr_load"
               /\ Moved(p)
               /\ JustApplied(args[p].id, args[p].event)
               /\ ~failed' )
             => /\ pc'[p] = "done"
                /\ ret'[p] = [tenant |-> ZeroTenant,
                              err |-> TransitionError(args[p].event,
                                                      tenants[args[p].id].status)]
                /\ tenants' = tenants
                /\ published' = published]_vars

\* suspend was applied and then replayed: the replay returned
\* TransitionError{suspend, suspended} and the row is still suspended
C15_Witness ==
    \E p \in Procs, i \in DOMAIN tenants :
        /\ pc[p] = "done"
        /\ ret[p].err = TransitionError(EventSuspend, StatusSuspended)
        /\ tenants[i].status = StatusSuspended
        /\ Len(published) = 3
        /\ published[3].event = EventSuspend
        /\ published[3].tenant.ID = i
        /\ published[3].tenant.Status = StatusSuspended

\* the events published for the tenant id, in order: the event of its
\* Create and the events of the Transitions that were applied to it
LogOf(id) == SelectSeq(published, LAMBDA x : x.tenant.ID = id)

\* the log of id is a path of the transition table that starts at creating
IsTablePath(l) ==
    /\ Len(l) > 0
    /\ l[1].event = EventProvisionComplete
    /\ l[1].tenant.Status = StatusCreating
    /\ \A k \in 2 .. Len(l) :
          HasRow(l[k].event, l[k - 1].tenant.Status, l[k].tenant.Status)

\* C16: in the sequential executions without port failures, between calls
\* the stored status of every tenant is the end of the path that starts at
\* creating and follows the table along the events applied to it, in
\* order; a Transition whose event has no row from the stored status
\* returns TransitionError{event, stored status} and changes nothing, and
\* one whose event has a row stores that row's destination.
C16_SequentialRunFollowsTable ==
    /\ [](pc[Caller] \in {"idle", "done"} =>
            \A id \in DOMAIN tenants :
                /\ IsTablePath(LogOf(id))
                /\ tenants[id].status = LogOf(id)[Len(LogOf(id))].tenant.Status)
    /\ [][/\ (pc[Caller] = "tr_load" /\ Moved(Caller)
               /\ args[Caller].id \in DOMAIN tenants
               /\ ~HasRowFrom(args[Caller].event, tenants[args[Caller].id].status))
              => /\ ret'[Caller] =
                       [tenant |-> ZeroTenant,
                        err |-> TransitionError(args[Caller].event,
                                                tenants[args[Caller].id].status)]
                 /\ tenants' = tenants
                 /\ published' = published
          /\ TransitionUpdated(Caller)
              => HasRow(args[Caller].event, tenants[tenant[Caller].ID].status,
                        tenants'[tenant[Caller].ID].status)]_vars

\* Create, then provision_complete, delete, deletion_complete, reactivate
\* on the tenant: four events were published along creating, active,
\* deleting, deleted, and the last call was rejected with
\* TransitionError{reactivate, deleted}
C16_Witness ==
    /\ ncalls = 5
    /\ pc[Caller] = "done"
    /\ ret[Caller].err = TransitionError(EventReactivate, StatusDeleted)
    /\ Len(published) = 4
    /\ [k \in 1 .. 4 |-> published[k].event] =
          <<EventProvisionComplete, EventProvisionComplete, EventDelete,
            EventDeletionComplete>>
    /\ [k \in 1 .. 4 |-> published[k].tenant.Status] =
          <<StatusCreating, StatusActive, StatusDeleting, StatusDeleted>>
    /\ \E id \in DOMAIN tenants :
          /\ DOMAIN tenants = {id}
          /\ tenants[id].status = StatusDeleted
          /\ \A k \in 1 .. 4 : published[k].tenant.ID = id

\* the table, findTransition and Validator.Apply on the status deleted
DeletedHasNoRow ==
    \A e \in Events :
        /\ ~HasRowFrom(e, StatusDeleted)
        /\ ~findTransition(StatusDeleted, e).ok
        /\ Apply(StatusDeleted, e) =
              [status |-> "", err |-> TransitionError(e, StatusDeleted)]

\* C17: no row of the table starts at deleted and Apply(deleted, e) is
\* TransitionError{e, deleted} for each of the five events; a Transition
\* that reads a tenant in deleted ends at validation with that error and
\* leaves the table, and so the status deleted, as it was.
C17_DeletedIsTerminal ==
    [][/\ DeletedHasNoRow
       /\ \A p \in Procs :
             ( /\ pc[p] = "tr_load"
               /\ Moved(p)
               /\ args[p].id \in DOMAIN tenants
               /\ tenants[args[p].id].status = StatusDeleted
               /\ ~failed' )
             => /\ pc'[p] = "done"
                /\ ret'[p] = [tenant |-> ZeroTenant,
                              err |-> TransitionError(args[p].event, StatusDeleted)]
                /\ tenants' = tenants
                /\ published' = published]_vars

\* a tenant was driven to deleted and a further Transition on it, with an
\* event that is valid elsewhere, was rejected
C17_Witness ==
    \E p \in Procs, i \in DOMAIN tenants :
        /\ pc[p] = "done"
        /\ ret[p].err = TransitionError(EventDelete, StatusDeleted)
        /\ tenants[i].status = StatusDeleted
        /\ published[Len(published)].event = EventDeletionComplete

RECURSIVE ReachableIn(_, _)
\* the statuses the table leads to from the set S in at most n steps
ReachableIn(n, S) ==
    IF n = 0 THEN S
    ELSE ReachableIn(n - 1,
            S \cup {Transitions[i].Dst : i \in {j \in 1 .. Len(Transitions) :
                                                   Transitions[j].Src \in S}})

ReachableStatuses == ReachableIn(Len(Transitions), {StatusCreating})

\* the status a Transition is about to write, or has written, is the
\* destination of a row for its event from a reachable status
HoldsTableDestination(p) ==
    \E src \in ReachableStatuses : HasRow(args[p].event, src, tenant[p].Status)

\* C18: every stored status is one of the five status strings and is
\* reachable from creating along the table; a status is written only by
\* the insert of a Create, which writes creating, and by the update of a
\* Transition, which writes the destination findTransition computed from
\* the status the call read.
C18_StatusOnlyFromTable ==
    /\ [](/\ \A i \in DOMAIN tenants :
                tenants[i].status \in Statuses \cap ReachableStatuses
          /\ \A p \in Procs :
                pc[p] \in {"tr_update", "tr_publish"} => HoldsTableDestination(p))
    /\ [][/\ \A p \in Procs :
                (pc[p] = "tr_load" /\ pc'[p] = "tr_update") =>
                    HasRow(args[p].event, tenants[args[p].id].status,
                           tenant'[p].Status)
          /\ \A i \in DOMAIN tenants' :
                (i \notin DOMAIN tenants \/ tenants'[i].status # tenants[i].status)
                => \E p \in Procs :
                      \/ /\ CreateInserted(p)
                         /\ i = tenant'[p].ID
                         /\ i \notin DOMAIN tenants
                         /\ tenants'[i].status = StatusCreating
                      \/ /\ TransitionUpdated(p)
                         /\ i = tenant[p].ID
                         /\ i \in DOMAIN tenants
                         /\ tenants'[i].status = tenant[p].Status]_vars

\* a Transition computed active from creating and its update wrote it
C18_Witness ==
    \E p \in Procs :
        /\ pc[p] = "tr_publish"
        /\ args[p].event = EventProvisionComplete
        /\ tenant[p].Status = StatusActive
        /\ tenants[tenant[p].ID].status = StatusActive

\* the tenants of a List result, as a set
ListedSet == {listed.tenants[k] : k \in 1 .. Len(listed.tenants)}

\* the stored tenants the status filter of the last List selects
StoredMatching ==
    {scanRow(i, tenants[i]) :
        i \in {j \in DOMAIN tenants :
                  listed.filter.Status # << >> =>
                      tenants[j].status = listed.filter.Status[1]}}

\* C19: a List without limit and offset returns, without error and each
\* once, exactly the stored tenants whose status is the filter's, and all
\* stored tenants when the filter has no status; a tenant in deleted is in
\* the unfiltered result and not in the result for active.
C19_ListFiltersByStatus ==
    (listed.calls = 1 /\ listed.filter.Limit = 0 /\ listed.filter.Offset = 0)
    => /\ listed.err = NoErr
       /\ ListedSet = StoredMatching
       /\ Len(listed.tenants) = Cardinality(StoredMatching)
       /\ \A i \in DOMAIN tenants :
             tenants[i].status = StatusDeleted =>
                /\ listed.filter.Status = << >> => scanRow(i, tenants[i]) \in ListedSet
                /\ listed.filter.Status = <<StatusActive>> =>
                      scanRow(i, tenants[i]) \notin ListedSet

\* a tenant was driven to deleted; List(status = active) returned nothing
C19_Witness ==
    /\ listed.calls = 1
    /\ listed.filter = [Status |-> <<StatusActive>>, Limit |-> 0, Offset |-> 0]
    /\ listed.err = NoErr
    /\ listed.tenants = << >>
    /\ \E i \in DOMAIN tenants : tenants[i].status = StatusDeleted

\* the stored tenants of the last List's filter in an order o, with the
\* first Offset skipped and then at most Limit kept when Limit > 0
ExpectedPage(o) ==
    LET rest == SubSeq(o, listed.filter.Offset + 1, Len(o))
        kept == IF listed.filter.Limit > 0 /\ listed.filter.Limit < Len(rest)
                THEN SubSeq(rest, 1, listed.filter.Limit) ELSE rest
    IN [k \in 1 .. Len(kept) |-> scanRow(kept[k], tenants[kept[k]])]

\* C20: every List with Limit >= 0 and Offset >= 0 succeeds and returns
\* the matching tenants newest-created-first, the first Offset skipped and
\* at most Limit of them when Limit > 0.
C20_ListPaginates ==
    listed.calls = 1
    => /\ listed.err = NoErr
       /\ \E o \in OrderedByCreatedAtDesc(tenants, Matching(tenants, listed.filter)) :
             listed.tenants = ExpectedPage(o)

\* a step in which a GetByID or a List call ran: they are the calls that
\* start and end in one step
ReadStep(p) == ncalls' = ncalls + 1 /\ pc'[p] = "done"

\* the answer p holds is the one repo.GetByID gives for the id p asked
HoldsLookupOf(p) ==
    LET id == args[p].id
    IN  IF id \in DOMAIN tenants
        THEN ret[p] = [tenant |-> scanRow(id, tenants[id]), err |-> NoErr]
        ELSE ret[p].tenant = ZeroTenant /\ ErrorsIs(ret[p].err, ErrTenantNotFound)

\* C21: GetByID returns the stored tenant with the given id, or the
\* not-found error when no such tenant is stored; GetByID and List change no
\* stored tenant and publish nothing.
C21_ReadsAreReadOnly ==
    /\ [](pc[Caller] = "done" /\ args[Caller].op = "GetByID" => HoldsLookupOf(Caller))
    /\ [][ReadStep(Caller) => tenants' = tenants /\ published' = published]_vars

C21_Witness ==
    /\ pc[Caller] = "done" /\ args[Caller].op = "GetByID"
    /\ ret[Caller].err = NoErr
    /\ ret[Caller].tenant.Status = StatusSuspended
    /\ Len(published) >= 3

\* the step in which the repository write of p's call fails: the driver
\* fails, or the insert meets a stored slug
WriteFailed(p) ==
    \/ /\ pc[p] = "create_persist" /\ Moved(p)
       /\ failed' \/ SlugStored(tenants, args[p].slug)
       /\ ~ErrorsIs(ret'[p].err, ErrorsNew("rand"))
    \/ pc[p] = "tr_update" /\ Moved(p) /\ failed'

\* C22: when the repository write fails (repo.Create in Create, repo.Update
\* in Transition) the call ends in that step with an error, without a second
\* attempt, no event is published and the stored tenants are the ones stored
\* before the write.
C22_FailedWriteChangesNothing ==
    [][\A p \in Procs :
          WriteFailed(p) =>
              /\ pc'[p] = "done"
              /\ ret'[p].err # NoErr
              /\ ret'[p].tenant = ZeroTenant
              /\ tenants' = tenants
              /\ published' = published]_vars

C22_Witness ==
    /\ pc["p1"] = "done" /\ failed
    /\ ret["p1"].err = Errorf("updating tenant", Errorf("updating tenant", DriverError))
    /\ \E i \in DOMAIN tenants : tenants[i].status = StatusCreating
    /\ Len(published) = 1

\* the step in which the UPDATE of p's Transition runs and matches no row
UpdateFindsNoRow(p) ==
    /\ pc[p] = "tr_update" /\ Moved(p)
    /\ ~failed'
    /\ tenant[p].ID \notin DOMAIN tenants

\* C23: when the UPDATE of a Transition matches no row (the row was there
\* when the call loaded it and is gone at update time), Transition returns
\* the zero tenant and an error for which errors.Is(err, ErrTenantNotFound)
\* holds, and publishes no event.
C23_UpdateOfMissingRowIsNotFound ==
    [][UpdateFindsNoRow(Caller) =>
          /\ pc'[Caller] = "done"
          /\ ErrorsIs(ret'[Caller].err, ErrTenantNotFound)
          /\ ret'[Caller].tenant = ZeroTenant
          /\ published' = published
          /\ tenants' = tenants]_vars

C23_Witness ==
    /\ pc[Caller] = "done"
    /\ ~failed /\ ~cancelled
    /\ ret[Caller].err = Errorf("updating tenant", ErrTenantNotFound)
    /\ Len(published) = 1

\* C24: a call of Create or Transition in which a port call failed returns
\* an error to its caller.
C24_NoPortErrorSwallowed ==
    pc[Caller] = "done" /\ porterr => ret[Caller].err # NoErr

BeforePersistence == {"create_check", "create_persist", "tr_load", "tr_update"}
BeforeEmission == {"create_publish", "tr_publish"}

\* the error Publish returns when it fails
EmissionFailure == PublisherPublish(<< >>, "", ZeroTenant, TRUE).err

\* C25: a call whose context is cancelled returns an error. Cancelled before
\* the repository write, it stores nothing, changes nothing and publishes
\* nothing; cancelled after the write and before Publish, it leaves what the
\* write stored in the table and returns the error of Publish, wrapped.
C25_Cancellation ==
    /\ [](pc[Caller] = "done" /\ cancelled =>
             ret[Caller].err # NoErr /\ ret[Caller].tenant = ZeroTenant)
    /\ [][cancelled /\ Moved(Caller) =>
             /\ tenants' = tenants
             /\ published' = published
             /\ pc[Caller] \in BeforePersistence => pc'[Caller] \notin BeforeEmission
             /\ pc[Caller] \in BeforeEmission =>
                   /\ pc'[Caller] = "done"
                   /\ ret'[Caller].err \in
                         {Errorf("publishing creation event", EmissionFailure),
                          Errorf("publishing event", EmissionFailure)}
                   /\ tenant[Caller].ID \in DOMAIN tenants =>
                         tenants'[tenant[Caller].ID].status = tenant[Caller].Status]_vars

C25_Witness ==
    /\ pc[Caller] = "done" /\ cancelled
    /\ ret[Caller].err = Errorf("publishing event", EmissionFailure)
    /\ \E i \in DOMAIN tenants : tenants[i].status = StatusActive
    /\ Len(published) = 1

ScanOutcome(current, event) ==
    LET f == findTransition(current, event)
    IN  IF f.ok THEN [status |-> f.dst, err |-> NoErr]
        ELSE [status |-> "", err |-> TransitionError(event, current)]

\* delete from active and delete from suspended, the two sources grouped
\* under one descriptor
GroupedDeleteYieldsDeleting ==
    /\ Apply(StatusActive, EventDelete) = [status |-> StatusDeleting, err |-> NoErr]
    /\ Apply(StatusSuspended, EventDelete) = [status |-> StatusDeleting, err |-> NoErr]

\* C27: for each of the 25 (status, event) pairs the validator built from
\* the grouped descriptors returns what a direct scan of the table returns:
\* the same destination, or TransitionError; delete from active and delete
\* from suspended both yield deleting.
C27_GroupingKeepsOutcome ==
    /\ GroupedDeleteYieldsDeleting
    /\ vpc = "done" => vout = ScanOutcome(vin.current, vin.event)

C27_Witness ==
    /\ vpc = "done"
    /\ vin = [current |-> StatusSuspended, event |-> EventDelete]
    /\ vout = [status |-> StatusDeleting, err |-> NoErr]
    /\ \E i \in 1 .. Len(events) : Len(events[i].Src) = 2

\* the rows of the table as a set of (event, src, dst)
RowSet == {<<Transitions[i].Event, Transitions[i].Src, Transitions[i].Dst>> :
              i \in 1 .. Len(Transitions)}

\* at most one row per (status, event)
Deterministic ==
    \A i, j \in 1 .. Len(Transitions) :
        Transitions[i].Event = Transitions[j].Event /\ Transitions[i].Src = Transitions[j].Src
            => i = j

\* pairs the table has no row for
PairsWithoutRow ==
    {<<StatusCreating, EventSuspend>>, <<StatusCreating, EventDelete>>,
     <<StatusActive, EventReactivate>>, <<StatusActive, EventProvisionComplete>>,
     <<StatusDeleted, EventDelete>>}

TableIsTheSixRows ==
    /\ Deterministic
    /\ RowSet = {<<EventProvisionComplete, StatusCreating, StatusActive>>,
                 <<EventSuspend, StatusActive, StatusSuspended>>,
                 <<EventReactivate, StatusSuspended, StatusActive>>,
                 <<EventDelete, StatusActive, StatusDeleting>>,
                 <<EventDelete, StatusSuspended, StatusDeleting>>,
                 <<EventDeletionComplete, StatusDeleting, StatusDeleted>>}
    /\ \A e \in Events : \E s \in Statuses : HasRowFrom(e, s)
    /\ \A k \in PairsWithoutRow : ~HasRowFrom(k[2], k[1])

\* C28: the transition table is deterministic and is exactly the six rows:
\* at most one row per (status, event), at least one row per event, no row
\* for (creating, suspend), (creating, delete), (active, reactivate),
\* (active, provision_complete), (deleted, delete); an Apply call on a pair
\* without a row is rejected and one on a pair with a row returns the
\* destination of its one row.
C28_TableIsDeterministic ==
    /\ TableIsTheSixRows
    /\ vpc = "done" =>
          IF <<vin.current, vin.event>> \in PairsWithoutRow
          THEN vout = [status |-> "", err |-> TransitionError(vin.event, vin.current)]
          ELSE vout.err = NoErr =>
                  {r \in RowSet : r[1] = vin.event /\ r[2] = vin.current}
                      = {<<vin.event, vin.current, vout.status>>}

C28_Witness ==
    /\ vpc = "done"
    /\ vin = [current |-> StatusActive, event |-> EventReactivate]
    /\ vout.err = TransitionError(EventReactivate, StatusActive)
    /\ HasRowFrom(EventReactivate, StatusSuspended)

\* two rows with the same (event, src) and different dst
Ambiguous(tbl) ==
    \E i, j \in 1 .. Len(tbl) :
        tbl[i].Event = tbl[j].Event /\ tbl[i].Src = tbl[j].Src /\ tbl[i].Dst # tbl[j].Dst

\* C29: a table with two rows for the same (event, src) and different dst
\* is rejected with an error when the validator is constructed; no lookup is
\* ever answered from such a table.
C29_AmbiguousTableRejected ==
    Ambiguous(conf.table) =>
        /\ conf.pc = "constructed" => conf.err # NoErr
        /\ conf.pc # "looked"

\* the ids of the tenants whose creation has been published: each of them
\* was stored at some time
OnceStored == {published[k].tenant.ID : k \in 1 .. Len(published)}

\* C30: no step removes a row, so the set of stored ids only grows; every
\* tenant that was once stored is still stored and repo.GetByID finds it, in
\* deleted as in any other status, and a GetByID call for it returns it.
C30_NeverPhysicallyRemoved ==
    /\ [][DOMAIN tenants \subseteq DOMAIN tenants']_vars
    /\ [](\A i \in OnceStored :
             /\ i \in DOMAIN tenants
             /\ RepoGetByID(tenants, i, FALSE).err = NoErr
             /\ pc[Caller] = "done" /\ args[Caller].op = "GetByID" /\ args[Caller].id = i
                   => ret[Caller].err = NoErr /\ ret[Caller].tenant.ID = i)

C30_Witness ==
    /\ pc[Caller] = "done" /\ args[Caller].op = "GetByID"
    /\ ret[Caller].err = NoErr
    /\ ret[Caller].tenant.Status = StatusDeleted
    /\ ret[Caller].tenant.ID \in OnceStored

\* C31: a stored tenant's created_at is the reading of the clock taken when
\* the tenant was constructed and no step changes it; updated_at is never
\* before created_at; every successful repo.Update stores the reading of the
\* clock taken by that update as updated_at.
C31_Timestamps ==
    /\ [](\A i \in DOMAIN tenants : tenants[i].created_at <= tenants[i].updated_at)
    /\ [][/\ \A i \in DOMAIN tenants :
               /\ i \in DOMAIN tenants'
               /\ tenants'[i].created_at = tenants[i].created_at
          /\ \A p \in Procs :
               /\ CreateInserted(p) =>
                     tenants'[tenant'[p].ID].created_at = Format(now')
               /\ TransitionUpdated(p) =>
                     tenants'[tenant[p].ID].updated_at = Format(now')]_vars

C31_Witness ==
    \E i \in DOMAIN tenants :
        /\ tenants[i].status = StatusActive
        /\ tenants[i].created_at = 0
        /\ tenants[i].updated_at = 1

\* the response kinds the error err qualifies for: 404 when it is or wraps
\* the not-found error, 409 for SlugConflictError, 422 for TransitionError
KindsOf(err) ==
    {k \in {404, 409, 422} :
        \/ k = 404 /\ \E i \in 1 .. Len(err) : err[i].kind = "ErrTenantNotFound"
        \/ k = 409 /\ \E i \in 1 .. Len(err) : err[i].kind = "SlugConflictError"
        \/ k = 422 /\ \E i \in 1 .. Len(err) : err[i].kind = "TransitionError"}

\* C32: every error the service returns qualifies for at most one of 404,
\* 409 and 422, and toHumaError answers with that one, or with 500 when the
\* error qualifies for none (a persistence or publish failure).
C32_ErrorToResponse ==
    pc[Caller] = "done" /\ ret[Caller].err # NoErr =>
        LET err == ret[Caller].err
        IN  /\ Cardinality(KindsOf(err)) <= 1
            /\ \A k \in KindsOf(err) : toHumaError(err) = k
            /\ KindsOf(err) = {} => toHumaError(err) = 500

C32_Witness ==
    /\ pc[Caller] = "done"
    /\ ret[Caller].err = Errorf("updating tenant", ErrTenantNotFound)
    /\ toHumaError(ret[Caller].err) = 404
    /\ Len(ret[Caller].err) = 2

\* the step in which the Transition of p returns its tenant
TransitionReturnedOk(p) ==
    pc[p] = "tr_publish" /\ pc'[p] = "done" /\ ret'[p].err = NoErr

\* C33: the tenant a successful Transition returns, and the snapshot it
\* publishes, is the record the call persisted: what repo.GetByID reads for
\* that id right after the call, status and updated_at included.
C33_ReturnsPersistedRecord ==
    [][TransitionReturnedOk(Caller) =>
          LET id == tenant[Caller].ID
              stored == RepoGetByID(tenants', id, FALSE).tenant
          IN /\ ret'[Caller].tenant = stored
             /\ published'[Len(published')].tenant = stored]_vars

\* C34: a stored status that is deleted is never changed again, by any
\* step of any interleaving, a Transition that loaded the tenant earlier
\* included.
C34_DeletedForever ==
    [][\A i \in DOMAIN tenants :
          tenants[i].status = StatusDeleted =>
              i \in DOMAIN tenants' /\ tenants'[i].status = StatusDeleted]_vars

\* C35: every write of a Transition changes the stored status along a row
\* of the table: (event of the writing call, status stored just before the
\* write, status written).
C35_EveryWriteIsLegal ==
    [][\A p \in Procs :
          TransitionUpdated(p) =>
              HasRow(args[p].event, tenants[tenant[p].ID].status,
                     tenants'[tenant[p].ID].status)]_vars

\* C36: when the repo.Create of a Create returns SlugConflictError{slug}, a
\* tenant with that slug is stored; an insert rejected for its id alone is
\* not reported as a slug conflict.
C36_SlugConflictMeansSlugStored ==
    [][\A p \in Procs :
          ( /\ pc[p] = "create_persist" /\ Moved(p)
            /\ ErrorsAs(ret'[p].err, "SlugConflictError") )
          => /\ AsTarget(ret'[p].err, "SlugConflictError").a = args[p].slug
             /\ SlugStored(tenants, args[p].slug)]_vars

\* the events accepted from status s
AcceptedFrom(s) == {e \in Events : HasRowFrom(e, s)}

\* from every status the table leads to deleted, and deleted is the only
\* status from which no event is accepted
NoDeadEndButDeleted ==
    /\ \A s \in Statuses : StatusDeleted \in ReachableIn(Len(Transitions), {s})
    /\ \A s \in Statuses : AcceptedFrom(s) = {} <=> s = StatusDeleted

\* C37: from each of creating, active, suspended and deleting at least one
\* event is accepted and deleted is reachable from every status by accepted
\* events; no event is accepted from deleted. An Apply call accepts its
\* event exactly when the event is accepted from its status.
C37_NoDeadEnd ==
    /\ NoDeadEndButDeleted
    /\ vpc = "done" => (vout.err = NoErr <=> vin.event \in AcceptedFrom(vin.current))

C37_Witness ==
    /\ vpc = "done"
    /\ vin = [current |-> StatusDeleting, event |-> EventDeletionComplete]
    /\ vout = [status |-> StatusDeleted, err |-> NoErr]
    /\ AcceptedFrom(StatusDeleted) = {}

\* the port client alone
SpecPorts == Init /\ [][NextPorts]_vars

\* this step is one call through a decorator
PortStep(op) == traced'.calls = traced.calls + 1 /\ traced'.op = op

\* the job Publish has to enqueue for the arguments a
JobFor(a) ==
    [Event |-> a.event, TenantID |-> a.tenant.ID, Name |-> a.tenant.Name,
     Slug |-> a.tenant.Slug, Status |-> a.tenant.Status, Plan |-> a.tenant.Plan]

\* C38: each successful Publish(event, tenant) of the River publisher
\* enqueues exactly one job, and its arguments carry the event name and the
\* tenant's id, name, slug, status and plan unchanged; a failed insert
\* enqueues nothing and returns an error.
C38_PublishEnqueuesOneJob ==
    [][PortStep("Publish") =>
         /\ ~failed' => /\ traced'.out.err = NoErr
                        /\ jobs' = Append(jobs, JobFor(traced'.args))
         /\ failed' => /\ traced'.out.err # NoErr
                       /\ jobs' = jobs]_vars

\* a job is in the queue, and the last Publish failed and added none
C38_Witness ==
    /\ traced.op = "Publish"
    /\ traced.out.err # NoErr
    /\ Len(jobs) = 1
    /\ jobs[1].Status # jobs[1].Event

\* what the wrapped port gives for the call recorded in traced', made in the
\* state before the step
InnerOutcomes ==
    LET a == traced'.args
    IN CASE traced'.op = "Create" ->
              LET r == RepoCreate(tenants, a.tenant, failed')
              IN {[db |-> r.db, jobs |-> jobs, out |-> PortResult(ZeroTenant, << >>, r.err)]}
         [] traced'.op = "GetByID" ->
              LET r == RepoGetByID(tenants, a.id, failed')
              IN {[db |-> tenants, jobs |-> jobs, out |-> PortResult(r.tenant, << >>, r.err)]}
         [] traced'.op = "GetBySlug" ->
              LET r == RepoGetBySlug(tenants, a.slug, failed')
              IN {[db |-> tenants, jobs |-> jobs, out |-> PortResult(r.tenant, << >>, r.err)]}
         [] traced'.op = "List" ->
              {[db |-> tenants, jobs |-> jobs, out |-> PortResult(ZeroTenant, r.tenants, r.err)] :
                  r \in RepoList(tenants, a.filter, failed')}
         [] traced'.op = "Update" ->
              LET r == RepoUpdate(tenants, a.tenant, now', failed')
              IN {[db |-> r.db, jobs |-> jobs, out |-> PortResult(ZeroTenant, << >>, r.err)]}
         [] traced'.op = "Publish" ->
              LET r == RiverPublish(jobs, a.event, a.tenant, failed')
              IN {[db |-> tenants, jobs |-> r.jobs, out |-> PortResult(ZeroTenant, << >>, r.err)]}

\* C39: the tracing decorators are transparent: each call reaches the wrapped
\* port exactly once with the same arguments, and the decorator returns
\* exactly the wrapped port's result and error (a not-found stays the
\* not-found sentinel).
C39_DecoratorsTransparent ==
    [][traced'.calls = traced.calls + 1 =>
         /\ traced'.next = << [op |-> traced'.op, args |-> traced'.args] >>
         /\ [db |-> tenants', jobs |-> jobs', out |-> traced'.out] \in InnerOutcomes
         /\ (traced'.op = "GetByID" /\ ~failed' /\ traced'.args.id \notin DOMAIN tenants)
               => traced'.out.err = ErrTenantNotFound]_vars

\* a decorated GetByID of an id that is not stored returned the sentinel
\* itself, and its span recorded the error
C39_Witness ==
    /\ traced.op = "GetByID"
    /\ traced.out.err = ErrTenantNotFound
    /\ traced.span.status = "Error"
    /\ Len(traced.next) = 1

\* run(), its server goroutine and the signals
SpecMain == Init /\ [][NextMain]_vars

\* the shutdown calls run has made, in the order it made them
ShutdownOrder == <<"srv.Shutdown", "riverClient.Stop", "providers.Shutdown">>

IsShutdownCall(e) == \E k \in 1 .. 3 : ShutdownOrder[k] = e

ShutdownLog == SelectSeq(main.log, IsShutdownCall)

\* position of the first entry e of the log, 0 when there is none
LogIndex(e) ==
    IF \E k \in 1 .. Len(main.log) : main.log[k] = e
    THEN CHOOSE k \in 1 .. Len(main.log) :
            main.log[k] = e /\ \A j \in 1 .. k - 1 : main.log[j] # e
    ELSE 0

\* start-up went through: the server goroutine was spawned
StartupSucceeded == LogIndex("go") > 0

\* C40: after start-up succeeds run() blocks until an interrupt or SIGTERM
\* arrives, then shuts down the HTTP server, the River client and the
\* OpenTelemetry providers in that order and returns nil, also when a
\* shutdown step reports an error; the River client is started before the
\* HTTP server serves.
C40_GracefulShutdown ==
    /\ [](/\ ShutdownLog = SubSeq(ShutdownOrder, 1, Len(ShutdownLog))
          /\ ShutdownLog # << >> => main.received \in {"interrupt", "SIGTERM"}
          /\ (main.pc = "returned" /\ StartupSucceeded) =>
                /\ main.ret = NoErr
                /\ ShutdownLog = ShutdownOrder
          /\ (main.pc = "returned" /\ ~StartupSucceeded) => main.ret # NoErr
          /\ (main.srv = "serving" \/ main.served > 0) =>
                /\ LogIndex("river.Start") > 0
                /\ LogIndex("river.Start") < LogIndex("serving"))
    /\ [][(main.pc = "wait" /\ main'.pc \notin {"wait", "killed"}) =>
            /\ main.done # << >>
            /\ Head(main.done) \in {"interrupt", "SIGTERM"}
            /\ main'.pc = "http"]_vars

\* run returned nil after a SIGTERM although srv.Shutdown and
\* riverClient.Stop reported errors, and the server had served a request
C40_Witness ==
    /\ main.pc = "returned"
    /\ main.ret = NoErr
    /\ main.received = "SIGTERM"
    /\ {"http shutdown error", "river shutdown error"} \subseteq main.logged
    /\ main.served > 0

=============================================================================
